---- MODULE Spec2Model ----
(***************************************************************************)
(* Comb memory allocators (HiveEngine): LinearAllocator, StackAllocator,   *)
(* BuddyAllocator, PoolAllocator, SlabAllocator and GPUAllocator<VulkanAPI>,*)
(* modelled as state machines.                                             *)
(* One allocator is constructed per behaviour (variable target); each      *)
(* specification below exercises one family of allocators.                 *)
(***************************************************************************)
EXTENDS Integers, Sequences, FiniteSets, TLC

VARIABLES
    target,     \* which allocator the program constructed
    lin,        \* LinearAllocator fields: base_, current_, capacity_
    stk,        \* StackAllocator fields: memory_block_, capacity_, current_
    bud,        \* BuddyAllocator fields and the headers it wrote into its arena
    pl,         \* PoolAllocator<T> fields and the first word of each of its slots
    slab,       \* SlabAllocator: its size classes and slabs, the memory of each slab
    gpu,        \* GPUAllocator<VulkanAPI>: its three pools, the device's memory types
                \* and the driver's memory objects
    threads,    \* the call each thread of the concurrent GPU client is in, and where
    budget,     \* Allocate calls the GPU client (all its threads) may still make
    held,       \* allocations the client of a Buddy or GPU allocator still holds
    live,       \* allocations the client still holds (sequence, oldest first)
    markers,    \* markers the client obtained from GetMarker
    lastOp,     \* the last call made, its arguments, pre-state and result
    aborted     \* a hive::Assert failed: the program terminated

vars == <<target, lin, stk, bud, pl, slab, gpu, threads, budget, held, live, markers, lastOp, aborted>>

(***************************************************************************)
(* Bounds of the model                                                     *)
(***************************************************************************)
MaxBumpCapacity == 3
MaxBumpSize == 4
MaxMarkers == 2
MaxBuddyCapacity == 256
MaxBuddyRequestLevel == 2
ConfigBlockSize == 4
ConfigMaxBlocks == 1
MaxGpuSize == 2
MaxHandles == 2
MaxGpuAllocations == 3
MaxThreads == 2
MaxThreadAllocations == 2
MaxPoolCapacity == 3
MaxObjectsPerSlab == 2

(***************************************************************************)
(* Platform and utility functions (comb/utils.h, comb/platform.h)          *)
(***************************************************************************)
NULL == 0

PageSize == 4096

IsPowerOfTwo(x) == x > 0 /\ \E k \in 0..30 : x = 2^k

AlignUp(value, alignment) == ((value + alignment - 1) \div alignment) * alignment

\* AllocatePages returns a page-aligned region
PageBases == {PageSize}

\* what the client keeps of a successful Allocate
Allocation(p, size) == [p |-> p, size |-> size]

NoOp == [op |-> "none", size |-> 0, alignment |-> 0, arg |-> 0,
         before |-> 0, result |-> 0]

(***************************************************************************)
(* LinearAllocator                                                         *)
(***************************************************************************)
LinearNull == [base_ |-> NULL, current_ |-> NULL, capacity_ |-> 0]

LinearCtor(capacity, pages) ==
    [base_ |-> pages, current_ |-> pages, capacity_ |-> capacity]

LinearGetUsedMemory(l) == l.current_ - l.base_

\* mutant: the capacity test is off by one
LinearAllocate_OffByOne(l, size, alignment) ==
    IF ~IsPowerOfTwo(alignment) \/ ~(size > 0)
    THEN [failed |-> TRUE, result |-> NULL, self |-> l]
    ELSE LET current_addr == l.current_
             aligned_addr == AlignUp(current_addr, alignment)
             padding == aligned_addr - current_addr
             required == padding + size
             used == current_addr - l.base_
             remaining == l.capacity_ - used
         IN  IF required >= remaining
             THEN [failed |-> FALSE, result |-> NULL, self |-> l]
             ELSE [failed |-> FALSE, result |-> aligned_addr,
                   self |-> [l EXCEPT !.current_ = aligned_addr + size]]

\* mutant: the padding is left out of the capacity test
LinearAllocate_NoPadding(l, size, alignment) ==
    IF ~IsPowerOfTwo(alignment) \/ ~(size > 0)
    THEN [failed |-> TRUE, result |-> NULL, self |-> l]
    ELSE LET current_addr == l.current_
             aligned_addr == AlignUp(current_addr, alignment)
             used == current_addr - l.base_
             remaining == l.capacity_ - used
         IN  IF size > remaining
             THEN [failed |-> FALSE, result |-> NULL, self |-> l]
             ELSE [failed |-> FALSE, result |-> aligned_addr,
                   self |-> [l EXCEPT !.current_ = aligned_addr + size]]

\* mutant: the cursor is bumped from the unaligned address
LinearAllocate_Unaligned(l, size, alignment) ==
    IF ~IsPowerOfTwo(alignment) \/ ~(size > 0)
    THEN [failed |-> TRUE, result |-> NULL, self |-> l]
    ELSE LET current_addr == l.current_
             aligned_addr == AlignUp(current_addr, alignment)
             padding == aligned_addr - current_addr
             required == padding + size
             used == current_addr - l.base_
             remaining == l.capacity_ - used
         IN  IF required > remaining
             THEN [failed |-> FALSE, result |-> NULL, self |-> l]
             ELSE [failed |-> FALSE, result |-> current_addr,
                   self |-> [l EXCEPT !.current_ = current_addr + size]]

LinearAllocate(l, size, alignment) ==
    IF ~IsPowerOfTwo(alignment) \/ ~(size > 0)
    THEN [failed |-> TRUE, result |-> NULL, self |-> l]
    ELSE LET current_addr == l.current_
             aligned_addr == AlignUp(current_addr, alignment)
             padding == aligned_addr - current_addr
             required == padding + size
             used == current_addr - l.base_
             remaining == l.capacity_ - used
         IN  IF required > remaining
             THEN [failed |-> FALSE, result |-> NULL, self |-> l]
             ELSE [failed |-> FALSE, result |-> aligned_addr,
                   self |-> [l EXCEPT !.current_ = aligned_addr + size]]

\* mutant: Deallocate of an address inside the used part rewinds the cursor to it
LinearDeallocate_Rewinds(l, ptr) ==
    IF ptr >= l.base_ /\ ptr < l.current_ THEN [l EXCEPT !.current_ = ptr] ELSE l

LinearDeallocate(l, ptr) == l

LinearReset(l) == [l EXCEPT !.current_ = l.base_]

\* mutant: the marker is the offset of the cursor, as for the Stack allocator
LinearGetMarker_Offset(l) == l.current_ - l.base_

LinearGetMarker(l) == l.current_

LinearResetToMarker(l, marker) ==
    LET marker_addr == marker
        base_addr == l.base_
        end_addr == base_addr + l.capacity_
    IN  IF ~(marker_addr >= base_addr /\ marker_addr <= end_addr)
        THEN [failed |-> TRUE, self |-> l]
        ELSE [failed |-> FALSE, self |-> [l EXCEPT !.current_ = marker]]

(***************************************************************************)
(* StackAllocator                                                          *)
(***************************************************************************)
StackNull == [memory_block_ |-> NULL, capacity_ |-> 0, current_ |-> 0]

StackCtor(capacity, pages) ==
    [memory_block_ |-> pages, capacity_ |-> capacity, current_ |-> 0]

StackGetUsedMemory(s) == s.current_

StackAllocate(s, size, alignment) ==
    IF ~(size > 0) \/ ~IsPowerOfTwo(alignment)
    THEN [failed |-> TRUE, result |-> NULL, self |-> s]
    ELSE LET current_addr == s.memory_block_ + s.current_
             aligned_addr == AlignUp(current_addr, alignment)
             aligned_current == aligned_addr - s.memory_block_
             padding == aligned_current - s.current_
             required == padding + size
             remaining == s.capacity_ - s.current_
         IN  IF required > remaining
             THEN [failed |-> FALSE, result |-> NULL, self |-> s]
             ELSE [failed |-> FALSE, result |-> aligned_addr,
                   self |-> [s EXCEPT !.current_ = aligned_current + size]]

StackDeallocate(s, ptr) == s

StackGetMarker(s) == s.current_

\* mutant: only the capacity bounds the marker
StackFreeToMarker_AcceptsBeyond(s, marker) ==
    IF ~(marker <= s.capacity_)
    THEN [failed |-> TRUE, self |-> s]
    ELSE [failed |-> FALSE, self |-> [s EXCEPT !.current_ = marker]]

StackFreeToMarker(s, marker) ==
    IF ~(marker <= s.current_) \/ ~(marker <= s.capacity_)
    THEN [failed |-> TRUE, self |-> s]
    ELSE [failed |-> FALSE, self |-> [s EXCEPT !.current_ = marker]]

StackReset(s) == [s EXCEPT !.current_ = 0]

(***************************************************************************)
(* BuddyAllocator                                                          *)
(***************************************************************************)
MinBlockSize == 64

MaxLevels == 20

\* sizeof(AllocationHeader): one size_t
HeaderSize == 8

\* alignof(std::max_align_t)
MaxAlign == 16

RECURSIVE NextPowerOfTwoFrom(_, _)
NextPowerOfTwoFrom(p, x) == IF p >= x THEN p ELSE NextPowerOfTwoFrom(2 * p, x)

\* the least power of two >= x (comb/utils.h)
NextPowerOfTwo(x) == NextPowerOfTwoFrom(1, x)

RECURSIVE Xor(_, _)
Xor(a, b) ==
    IF a = 0 THEN b
    ELSE IF b = 0 THEN a
    ELSE (((a % 2) + (b % 2)) % 2) + (2 * Xor(a \div 2, b \div 2))

Levels == 0..(MaxLevels - 1)

RECURSIVE GetLevelFrom(_, _, _)
GetLevelFrom(blockSize, level, size) ==
    IF blockSize < size /\ level < MaxLevels
    THEN GetLevelFrom(2 * blockSize, level + 1, size)
    ELSE level

GetLevel(size) == GetLevelFrom(MinBlockSize, 0, size)

GetBlockSize(level) == MinBlockSize * 2^level

GetBuddyOffset(offset, blockSize) == Xor(offset, blockSize)

NoHeaders == [a \in {} |-> 0]

BuddyNull ==
    [memory_block_ |-> NULL, capacity_ |-> 0, used_memory_ |-> 0,
     free_lists_ |-> [i \in Levels |-> <<>>], headers |-> NoHeaders]

\* free_lists_[i] is the list of block addresses, head first; a top level
\* outside the array (capacity above 64 << 19) is not covered here
BuddyCtor(capacity, pages) ==
    LET capacity_ == NextPowerOfTwo(capacity)
        topLevel == GetLevel(capacity_)
    IN  [memory_block_ |-> pages, capacity_ |-> capacity_, used_memory_ |-> 0,
         free_lists_ |-> [i \in Levels |-> IF i = topLevel THEN <<pages>> ELSE <<>>],
         headers |-> NoHeaders]

BuddyGetUsedMemory(b) == b.used_memory_

BuddyGetTotalMemory(b) == b.capacity_

RECURSIVE FindFreeLevel(_, _)
FindFreeLevel(free_lists, currentLevel) ==
    IF currentLevel < MaxLevels /\ free_lists[currentLevel] = <<>>
    THEN FindFreeLevel(free_lists, currentLevel + 1)
    ELSE currentLevel

\* the split loop: the upper half at each level below becomes a free buddy
RECURSIVE SplitDown(_, _, _, _)
SplitDown(free_lists, block, currentLevel, level) ==
    IF currentLevel > level
    THEN LET lower == currentLevel - 1
             splitSize == GetBlockSize(lower)
             buddy == block + splitSize
         IN  SplitDown([free_lists EXCEPT ![lower] = <<buddy>> \o @], block, lower, level)
    ELSE free_lists

\* variant: used_memory_ grows by the bytes asked for plus the header
BuddyAllocate_CountsRequest(b, size, alignment) ==
    IF ~(alignment <= MaxAlign)
    THEN [failed |-> TRUE, result |-> NULL, self |-> b]
    ELSE LET totalSize == size + HeaderSize
             rounded == NextPowerOfTwo(totalSize)
             blockSize == IF rounded < MinBlockSize THEN MinBlockSize ELSE rounded
             level == GetLevel(blockSize)
             currentLevel == FindFreeLevel(b.free_lists_, level)
         IN  IF currentLevel >= MaxLevels
             THEN [failed |-> FALSE, result |-> NULL, self |-> b]
             ELSE LET block == Head(b.free_lists_[currentLevel])
                      popped == [b.free_lists_ EXCEPT ![currentLevel] = Tail(@)]
                      split == SplitDown(popped, block, currentLevel, level)
                  IN  [failed |-> FALSE,
                       result |-> block + HeaderSize,
                       self |-> [b EXCEPT
                                   !.free_lists_ = split,
                                   !.headers = (block :> blockSize) @@ @,
                                   !.used_memory_ = @ + totalSize]]

BuddyAllocate(b, size, alignment) ==
    IF ~(alignment <= MaxAlign)
    THEN [failed |-> TRUE, result |-> NULL, self |-> b]
    ELSE LET totalSize == size + HeaderSize
             rounded == NextPowerOfTwo(totalSize)
             blockSize == IF rounded < MinBlockSize THEN MinBlockSize ELSE rounded
             level == GetLevel(blockSize)
             currentLevel == FindFreeLevel(b.free_lists_, level)
         IN  IF currentLevel >= MaxLevels
             THEN [failed |-> FALSE, result |-> NULL, self |-> b]
             ELSE LET block == Head(b.free_lists_[currentLevel])
                      popped == [b.free_lists_ EXCEPT ![currentLevel] = Tail(@)]
                      split == SplitDown(popped, block, currentLevel, level)
                  IN  [failed |-> FALSE,
                       result |-> block + HeaderSize,
                       self |-> [b EXCEPT
                                   !.free_lists_ = split,
                                   !.headers = (block :> blockSize) @@ @,
                                   !.used_memory_ = @ + blockSize]]

RemoveAt(list, i) == SubSeq(list, 1, i - 1) \o SubSeq(list, i + 1, Len(list))

RECURSIVE CoalesceAndInsert(_, _, _, _, _)
CoalesceAndInsert(b, free_lists, offset, blockSize, level) ==
    LET buddyOffset == GetBuddyOffset(offset, blockSize)
        buddyPtr == b.memory_block_ + buddyOffset
        found == {i \in DOMAIN free_lists[level] : free_lists[level][i] = buddyPtr}
        insert == [free_lists EXCEPT ![level] = <<b.memory_block_ + offset>> \o @]
    IN  IF ~(level < MaxLevels - 1) THEN insert
        ELSE IF buddyOffset >= b.capacity_ THEN insert
        ELSE IF found = {} THEN insert
        ELSE LET i == CHOOSE k \in found : \A m \in found : k <= m
                 removed == [free_lists EXCEPT ![level] = RemoveAt(@, i)]
                 merged == IF offset > buddyOffset THEN buddyOffset ELSE offset
             IN  CoalesceAndInsert(b, removed, merged, 2 * blockSize, level + 1)

\* mutant: a freed block is pushed on its level without looking for its buddy
BuddyDeallocate_NoCoalesce(b, ptr) ==
    IF ptr = NULL THEN b
    ELSE LET header == ptr - HeaderSize
             blockSize == b.headers[header]
             level == GetLevel(blockSize)
         IN  [b EXCEPT
                !.used_memory_ = @ - blockSize,
                !.headers = [a \in DOMAIN @ \ {header} |-> @[a]],
                !.free_lists_ = [@ EXCEPT ![level] = <<header>> \o @]]

\* the header of a freed block is overwritten by the free-list link
BuddyDeallocate(b, ptr) ==
    IF ptr = NULL THEN b
    ELSE LET header == ptr - HeaderSize
             blockSize == b.headers[header]
             level == GetLevel(blockSize)
         IN  [b EXCEPT
                !.used_memory_ = @ - blockSize,
                !.headers = [a \in DOMAIN @ \ {header} |-> @[a]],
                !.free_lists_ = CoalesceAndInsert(b, @, header - b.memory_block_,
                                                  blockSize, level)]

(***************************************************************************)
(* GPUAllocator<VulkanAPI>: MemoryBlock                                    *)
(***************************************************************************)
\* VK_WHOLE_SIZE (~0ULL): "no fit in this block"
VK_WHOLE_SIZE == -1

\* UINT32_MAX: "no suitable memory type"
UINT32_MAX == -1

\* VK_NULL_HANDLE
VK_NULL_HANDLE == 0

MemoryTypes == {"DeviceLocal", "HostVisible", "HostCached"}

FreeRegion(offset, size) == [offset |-> offset, size |-> size]

MemoryBlockCtor(memory, blockSize, typeIndex, mapped) ==
    [memory |-> memory, size |-> blockSize, used |-> 0, mappedPtr |-> mapped,
     memoryTypeIndex |-> typeIndex, freeRegions |-> <<FreeRegion(0, blockSize)>>]

\* variant: the fitting region at the highest list position is taken
FindFreeRegion_LastFit(block, allocSize, alignment) ==
    LET fits == {i \in DOMAIN block.freeRegions :
                    LET region == block.freeRegions[i]
                        alignedOffset == AlignUp(region.offset, alignment)
                        padding == alignedOffset - region.offset
                    IN  region.size >= allocSize + padding}
    IN  IF fits = {} THEN 0 ELSE CHOOSE i \in fits : \A j \in fits : i >= j

\* index of the first region that holds allocSize bytes after its padding, or 0
FindFreeRegion(block, allocSize, alignment) ==
    LET fits == {i \in DOMAIN block.freeRegions :
                    LET region == block.freeRegions[i]
                        alignedOffset == AlignUp(region.offset, alignment)
                        padding == alignedOffset - region.offset
                    IN  region.size >= allocSize + padding}
    IN  IF fits = {} THEN 0 ELSE CHOOSE i \in fits : \A j \in fits : i <= j

\* MemoryBlock::Allocate once FindFreeRegion returned region number i (0: none)
TakeRegion(block, allocSize, alignment, i) ==
    IF i = 0 THEN [offset |-> VK_WHOLE_SIZE, self |-> block]
    ELSE LET region == block.freeRegions[i]
             alignedOffset == AlignUp(region.offset, alignment)
             padding == alignedOffset - region.offset
             taken == [block.freeRegions EXCEPT
                         ![i] = FreeRegion(alignedOffset + allocSize,
                                           region.size - (allocSize + padding))]
         IN  [offset |-> alignedOffset,
              self |-> [block EXCEPT
                          !.freeRegions = IF region.size - (allocSize + padding) = 0
                                          THEN SelectSeq(taken, LAMBDA r : r.size # 0)
                                          ELSE taken,
                          !.used = @ + allocSize + padding]]

BlockAllocate(block, allocSize, alignment) ==
    TakeRegion(block, allocSize, alignment, FindFreeRegion(block, allocSize, alignment))

\* std::sort by offset (operator<), as an insertion sort
RECURSIVE InsertByOffset(_, _)
InsertByOffset(sorted, r) ==
    IF sorted = <<>> THEN <<r>>
    ELSE IF r.offset < Head(sorted).offset THEN <<r>> \o sorted
    ELSE <<Head(sorted)>> \o InsertByOffset(Tail(sorted), r)

RECURSIVE SortByOffset(_)
SortByOffset(regions) ==
    IF regions = <<>> THEN <<>>
    ELSE InsertByOffset(SortByOffset(SubSeq(regions, 1, Len(regions) - 1)),
                        regions[Len(regions)])

RECURSIVE CoalesceFrom(_, _, _, _)
CoalesceFrom(regions, i, current, coalesced) ==
    IF i > Len(regions) THEN Append(coalesced, current)
    ELSE LET next == regions[i]
         IN  IF current.offset + current.size = next.offset
             THEN CoalesceFrom(regions, i + 1,
                               FreeRegion(current.offset, current.size + next.size),
                               coalesced)
             ELSE CoalesceFrom(regions, i + 1, next, Append(coalesced, current))

CoalesceFreeRegions(regions) ==
    IF Len(regions) <= 1 THEN regions
    ELSE CoalesceFrom(regions, 2, regions[1], <<>>)

BlockDeallocate(block, offset, allocSize) ==
    [block EXCEPT
       !.freeRegions = CoalesceFreeRegions(
                           SortByOffset(Append(@, FreeRegion(offset, allocSize)))),
       !.used = @ - allocSize]

(***************************************************************************)
(* GPUAllocator<VulkanAPI>: MemoryPool and the allocator                   *)
(***************************************************************************)
\* vkGetPhysicalDeviceMemoryProperties: the property flags of each memory type
\* (index 0 first) of a discrete GPU, of an integrated GPU whose device-local
\* memory is host visible, and of a device without host-cached memory
DeviceMemoryTables ==
    { << {"DEVICE_LOCAL"}, {"HOST_VISIBLE", "HOST_COHERENT"},
         {"HOST_VISIBLE", "HOST_COHERENT", "HOST_CACHED"} >>,
      << {"DEVICE_LOCAL", "HOST_VISIBLE", "HOST_COHERENT"},
         {"DEVICE_LOCAL", "HOST_VISIBLE", "HOST_COHERENT", "HOST_CACHED"} >>,
      << {"DEVICE_LOCAL"}, {"HOST_VISIBLE", "HOST_COHERENT"} >> }

GetMemoryProperties(type) ==
    CASE type = "DeviceLocal" -> {"DEVICE_LOCAL"}
      [] type = "HostVisible" -> {"HOST_VISIBLE", "HOST_COHERENT"}
      [] type = "HostCached" -> {"HOST_VISIBLE", "HOST_CACHED"}

\* the type filter of GetPool is UINT32_MAX: every index passes it; indices count from 0
FindMemoryType(memoryProperties, properties) ==
    LET ok == {i \in DOMAIN memoryProperties : properties \subseteq memoryProperties[i]}
    IN  IF ok = {} THEN UINT32_MAX
        ELSE (CHOOSE i \in ok : \A j \in ok : i <= j) - 1

\* an empty std::unique_ptr<MemoryPool>
NoPool == [exists |-> FALSE, type |-> "DeviceLocal", memoryTypeIndex |-> 0,
           blockSize |-> 0, blocks |-> <<>>, mutex |-> 0]

MemoryPoolCtor(memType, typeIndex, size) ==
    [exists |-> TRUE, type |-> memType, memoryTypeIndex |-> typeIndex,
     blockSize |-> size, blocks |-> <<>>, mutex |-> 0]

GpuNull ==
    [pools |-> [t \in MemoryTypes |-> NoPool], memoryProperties |-> <<>>,
     blockSize |-> 0, maxBlocks |-> 0, driverMemory |-> {},
     poolsCreated |-> [t \in MemoryTypes |-> 0]]

GpuCtor(memoryProperties, blockSize, maxBlocks) ==
    [pools |-> [t \in MemoryTypes |-> NoPool], memoryProperties |-> memoryProperties,
     blockSize |-> blockSize, maxBlocks |-> maxBlocks, driverMemory |-> {},
     poolsCreated |-> [t \in MemoryTypes |-> 0]]

\* GetPool: the pool of a class is created on first use
\* std::make_unique<MemoryPool> assigned to the pool pointer of the class;
\* poolsCreated counts the MemoryPool objects constructed for the class
CreatePool(g, type) ==
    [g EXCEPT !.pools[type] =
                 MemoryPoolCtor(type,
                                FindMemoryType(g.memoryProperties, GetMemoryProperties(type)),
                                g.blockSize),
              !.poolsCreated[type] = @ + 1]

GetPool(g, type) == IF ~g.pools[type].exists THEN CreatePool(g, type) ELSE g

PoolGetAllocatedSize(pool) ==
    LET RECURSIVE Sum(_)
        Sum(i) == IF i = 0 THEN 0 ELSE pool.blocks[i].used + Sum(i - 1)
    IN  Sum(Len(pool.blocks))

\* the invalid handle: VulkanAllocation{}
NoAllocation ==
    [memory |-> VK_NULL_HANDLE, offset |-> 0, size |-> 0, mappedPtr |-> FALSE,
     blockIndex |-> 0, memoryTypeIndex |-> 0]

IsValid(allocation) == allocation.memory # VK_NULL_HANDLE

\* the handle of a sub-allocation at `offset` of block number i (from 0)
MakeAllocation(block, offset, size, i) ==
    [memory |-> block.memory, offset |-> offset, size |-> size,
     mappedPtr |-> block.mappedPtr, blockIndex |-> i,
     memoryTypeIndex |-> block.memoryTypeIndex]

\* the loop of Allocate over the pool's blocks: the first block that serves the
\* request, as [index (from 1, 0 when none), block after, offset]
FirstServingBlock(pool, size, alignment) ==
    LET serving == {i \in DOMAIN pool.blocks :
                       BlockAllocate(pool.blocks[i], size, alignment).offset # VK_WHOLE_SIZE}
    IN  IF serving = {} THEN 0 ELSE CHOOSE i \in serving : \A j \in serving : i <= j

\* a VkDeviceMemory value the driver has not handed out
NewDeviceMemory(g) == CHOOSE m \in 1..(Cardinality(g.driverMemory) + 1) : m \notin g.driverMemory

Max(a, b) == IF a >= b THEN a ELSE b

\* variant: a memory object whose mapping failed is not given back
AllocateBlock_KeepsUnmapped(g, pool, size, allocateOk, mapOk) ==
    LET memory == NewDeviceMemory(g)
        hostMapped == pool.type = "HostVisible" \/ pool.type = "HostCached"
    IN  IF ~allocateOk THEN [ok |-> FALSE, pool |-> pool, driverMemory |-> g.driverMemory]
        ELSE IF hostMapped /\ ~mapOk
        THEN [ok |-> FALSE, pool |-> pool, driverMemory |-> g.driverMemory \cup {memory}]
        ELSE [ok |-> TRUE,
              pool |-> [pool EXCEPT !.blocks =
                           Append(@, MemoryBlockCtor(memory, size, pool.memoryTypeIndex,
                                                     hostMapped))],
              driverMemory |-> g.driverMemory \cup {memory}]

\* AllocateBlock: vkAllocateMemory, then vkMapMemory for the host-visible classes;
\* allocateOk and mapOk are the driver's answers. A memory object whose mapping
\* failed is given back with vkFreeMemory.
AllocateBlock(g, pool, size, allocateOk, mapOk) ==
    LET memory == NewDeviceMemory(g)
        hostMapped == pool.type = "HostVisible" \/ pool.type = "HostCached"
    IN  IF ~allocateOk THEN [ok |-> FALSE, pool |-> pool, driverMemory |-> g.driverMemory]
        ELSE IF hostMapped /\ ~mapOk
        THEN [ok |-> FALSE, pool |-> pool, driverMemory |-> g.driverMemory]
        ELSE [ok |-> TRUE,
              pool |-> [pool EXCEPT !.blocks =
                           Append(@, MemoryBlockCtor(memory, size, pool.memoryTypeIndex,
                                                     hostMapped))],
              driverMemory |-> g.driverMemory \cup {memory}]

\* Allocate: the handle for the offset that block number i (from 1) returned
AllocateFromBlock(g, pool, size, i, r) ==
    [failed |-> r.offset = VK_WHOLE_SIZE,
     result |-> MakeAllocation(r.self, r.offset, size, i - 1),
     pool |-> [pool EXCEPT !.blocks[i] = r.self],
     driverMemory |-> g.driverMemory]

\* Allocate: after AllocateBlock returned nb
AllocateFromNewBlock(g, size, alignment, nb) ==
    IF ~nb.ok
    THEN [failed |-> FALSE, result |-> NoAllocation, pool |-> nb.pool,
          driverMemory |-> nb.driverMemory]
    ELSE AllocateFromBlock([g EXCEPT !.driverMemory = nb.driverMemory], nb.pool, size,
                           Len(nb.pool.blocks),
                           BlockAllocate(nb.pool.blocks[Len(nb.pool.blocks)], size, alignment))

\* variant: a new block is allocated whatever the number of blocks
AllocateAt_NoLimit(g, pool, size, alignment, allocateOk, mapOk, i) ==
    IF i # 0
    THEN AllocateFromBlock(g, pool, size, i, BlockAllocate(pool.blocks[i], size, alignment))
    ELSE AllocateFromNewBlock(g, size, alignment,
                              AllocateBlock(g, pool, Max(pool.blockSize, size + alignment),
                                            allocateOk, mapOk))

\* variant: a new block always has the configured block size
AllocateAt_FixedBlockSize(g, pool, size, alignment, allocateOk, mapOk, i) ==
    IF i # 0
    THEN AllocateFromBlock(g, pool, size, i, BlockAllocate(pool.blocks[i], size, alignment))
    ELSE IF Len(pool.blocks) >= g.maxBlocks
    THEN [failed |-> FALSE, result |-> NoAllocation, pool |-> pool,
          driverMemory |-> g.driverMemory]
    ELSE AllocateFromNewBlock(g, size, alignment,
                              AllocateBlock(g, pool, pool.blockSize, allocateOk, mapOk))

\* Allocate once the loop over the blocks ended at block number i (0: no block fits)
AllocateAt(g, pool, size, alignment, allocateOk, mapOk, i) ==
    IF i # 0
    THEN AllocateFromBlock(g, pool, size, i, BlockAllocate(pool.blocks[i], size, alignment))
    ELSE IF Len(pool.blocks) >= g.maxBlocks
    THEN [failed |-> FALSE, result |-> NoAllocation, pool |-> pool,
          driverMemory |-> g.driverMemory]
    ELSE AllocateFromNewBlock(g, size, alignment,
                              AllocateBlock(g, pool, Max(pool.blockSize, size + alignment),
                                            allocateOk, mapOk))

\* the part of Allocate that runs with pool.mutex held
PoolAllocate(g, pool, size, alignment, allocateOk, mapOk) ==
    AllocateAt(g, pool, size, alignment, allocateOk, mapOk,
               FirstServingBlock(pool, size, alignment))

\* the allocator after Allocate ran on the pool of `type` with outcome r
AllocateIn(g, type, r) ==
    [failed |-> r.failed, result |-> r.result,
     self |-> [g EXCEPT !.pools[type] = r.pool, !.driverMemory = r.driverMemory]]

GpuAllocate(g0, size, alignment, type, allocateOk, mapOk) ==
    IF ~(size > 0) THEN [failed |-> TRUE, result |-> NoAllocation, self |-> g0]
    ELSE AllocateIn(GetPool(g0, type), type,
                    PoolAllocate(GetPool(g0, type), GetPool(g0, type).pools[type],
                                 size, alignment, allocateOk, mapOk))

\* the class Deallocate resolves from the handle's memory type index
ResolveType(g, allocation) ==
    IF g.pools["HostVisible"].exists
       /\ allocation.memoryTypeIndex = g.pools["HostVisible"].memoryTypeIndex
    THEN "HostVisible"
    ELSE IF g.pools["HostCached"].exists
            /\ allocation.memoryTypeIndex = g.pools["HostCached"].memoryTypeIndex
    THEN "HostCached"
    ELSE "DeviceLocal"

\* variant: a block that no allocation uses any more is given back to the driver
PoolDeallocate_Evicts(pool, allocation) ==
    IF allocation.blockIndex >= Len(pool.blocks)
    THEN [pool |-> pool, allocation |-> allocation]
    ELSE [pool |-> [pool EXCEPT !.blocks =
                       SelectSeq([@ EXCEPT ![allocation.blockIndex + 1] =
                                     BlockDeallocate(@, allocation.offset, allocation.size)],
                                 LAMBDA b : b.used # 0)],
          allocation |-> NoAllocation]

\* the part of Deallocate that runs with pool.mutex held: the pool after it and
\* the caller's handle after it
PoolDeallocate(pool, allocation) ==
    IF allocation.blockIndex >= Len(pool.blocks)
    THEN [pool |-> pool, allocation |-> allocation]
    ELSE [pool |-> [pool EXCEPT !.blocks[allocation.blockIndex + 1] =
                       BlockDeallocate(@, allocation.offset, allocation.size)],
          allocation |-> NoAllocation]

\* Deallocate on the pool of the resolved class
DeallocateIn(g, type, allocation) ==
    [self |-> [g EXCEPT !.pools[type] = PoolDeallocate(g.pools[type], allocation).pool],
     allocation |-> PoolDeallocate(g.pools[type], allocation).allocation]

\* variant: the handle is not tested with IsValid
GpuDeallocate_NoValidityTest(g0, allocation) ==
    DeallocateIn(GetPool(g0, ResolveType(g0, allocation)),
                 ResolveType(g0, allocation), allocation)

\* Deallocate: the allocator after the call and the caller's handle after the call
GpuDeallocate(g0, allocation) ==
    IF ~IsValid(allocation) THEN [self |-> g0, allocation |-> allocation]
    ELSE DeallocateIn(GetPool(g0, ResolveType(g0, allocation)),
                      ResolveType(g0, allocation), allocation)

GpuGetAllocatedSize(g, type) == PoolGetAllocatedSize(GetPool(g, type).pools[type])

\* MemoryPool::GetTotalSize: the pool's block size times its number of blocks
PoolGetTotalSize(pool) == pool.blockSize * Len(pool.blocks)

\* GetStats: the byte and block counters of GPUMemoryStats
GpuGetStats(g, type) ==
    [allocatedBytes |-> PoolGetAllocatedSize(GetPool(g, type).pools[type]),
     totalBytes |-> PoolGetTotalSize(GetPool(g, type).pools[type]),
     blockCount |-> Len(GetPool(g, type).pools[type].blocks)]

(***************************************************************************)
(* PoolAllocator<T>                                                        *)
(* The slots are modelled with the word each holds in its first            *)
(* sizeof(void* ) bytes: the link of a free slot, the client's data in a    *)
(* live one.                                                               *)
(***************************************************************************)
SizeofPointer == 8

\* the object types T the pools are instantiated with
PoolTypes == {[size |-> 4, align |-> 4], [size |-> 16, align |-> 8]}

PoolSlotSize(T) == IF T.size > SizeofPointer THEN T.size ELSE SizeofPointer

PoolSlots(block, capacity, slot_size) == {block + k * slot_size : k \in 0..(capacity - 1)}

PoolAllocatorNull == [memory_block_ |-> NULL, free_list_head_ |-> NULL, capacity_ |-> 0,
             used_count_ |-> 0, total_size_ |-> 0, T |-> [size |-> 0, align |-> 0],
             mem |-> <<>>]

\* the loop of Reset and the store after it
RECURSIVE PoolAllocatorResetLoop(_, _, _, _, _)
PoolAllocatorResetLoop(mem, current, i, capacity, slot_size) ==
    IF i < capacity - 1
    THEN PoolAllocatorResetLoop([mem EXCEPT ![current] = current + slot_size],
                       current + slot_size, i + 1, capacity, slot_size)
    ELSE [mem EXCEPT ![current] = NULL]

PoolAllocatorReset(p) ==
    [p EXCEPT !.free_list_head_ = p.memory_block_,
              !.mem = PoolAllocatorResetLoop(p.mem, p.memory_block_, 0, p.capacity_,
                                    PoolSlotSize(p.T)),
              !.used_count_ = 0]

PoolAllocatorCtor(capacity, T, pages) ==
    PoolAllocatorReset([memory_block_ |-> pages, free_list_head_ |-> NULL,
               capacity_ |-> capacity, used_count_ |-> 0,
               total_size_ |-> capacity * PoolSlotSize(T), T |-> T,
               mem |-> [a \in PoolSlots(pages, capacity, PoolSlotSize(T)) |-> NULL]])

\* mutant: an exhausted pool hands out its first slot again
PoolAllocatorAllocate_Fallback(p, size, alignment) ==
    IF size > p.T.size \/ alignment > p.T.align
    THEN [failed |-> TRUE, result |-> NULL, self |-> p]
    ELSE IF p.free_list_head_ = NULL
    THEN [failed |-> FALSE, result |-> p.memory_block_,
          self |-> [p EXCEPT !.used_count_ = @ + 1]]
    ELSE [failed |-> FALSE, result |-> p.free_list_head_,
          self |-> [p EXCEPT !.free_list_head_ = p.mem[p.free_list_head_],
                             !.used_count_ = @ + 1]]

PoolAllocatorAllocate(p, size, alignment) ==
    IF size > p.T.size \/ alignment > p.T.align
    THEN [failed |-> TRUE, result |-> NULL, self |-> p]
    ELSE IF p.free_list_head_ = NULL
    THEN [failed |-> FALSE, result |-> NULL, self |-> p]
    ELSE [failed |-> FALSE, result |-> p.free_list_head_,
          self |-> [p EXCEPT !.free_list_head_ = p.mem[p.free_list_head_],
                             !.used_count_ = @ + 1]]

\* mutant: the freed slot is linked behind the head of the free list
PoolAllocatorDeallocate_BehindHead(p, ptr) ==
    IF ptr = NULL
    THEN [failed |-> FALSE, self |-> p]
    ELSE IF ~(p.used_count_ > 0)
    THEN [failed |-> TRUE, self |-> p]
    ELSE IF p.free_list_head_ = NULL
    THEN [failed |-> FALSE,
          self |-> [p EXCEPT !.mem[ptr] = NULL, !.free_list_head_ = ptr,
                             !.used_count_ = @ - 1]]
    ELSE [failed |-> FALSE,
          self |-> [p EXCEPT !.mem = [[p.mem EXCEPT ![ptr] = p.mem[p.free_list_head_]]
                                         EXCEPT ![p.free_list_head_] = ptr],
                             !.used_count_ = @ - 1]]

\* mutant: the freed slot is pushed but used_count_ is not decremented
PoolAllocatorDeallocate_KeepsCount(p, ptr) ==
    IF ptr = NULL
    THEN [failed |-> FALSE, self |-> p]
    ELSE IF ~(p.used_count_ > 0)
    THEN [failed |-> TRUE, self |-> p]
    ELSE [failed |-> FALSE,
          self |-> [p EXCEPT !.mem[ptr] = p.free_list_head_,
                             !.free_list_head_ = ptr]]

PoolAllocatorDeallocate(p, ptr) ==
    IF ptr = NULL
    THEN [failed |-> FALSE, self |-> p]
    ELSE IF ~(p.used_count_ > 0)
    THEN [failed |-> TRUE, self |-> p]
    ELSE [failed |-> FALSE,
          self |-> [p EXCEPT !.mem[ptr] = p.free_list_head_,
                             !.free_list_head_ = ptr,
                             !.used_count_ = @ - 1]]

PoolAllocatorGetCapacity(p) == p.capacity_

PoolAllocatorGetUsedCount(p) == p.used_count_

(***************************************************************************)
(* SlabAllocator<ObjectsPerSlab, SizeClasses...>                           *)
(* A size class may be narrower than a pointer, so the memory of a slab is *)
(* modelled in half words and a pointer as its two halves: lo is the       *)
(* address within the lower 4 GiB, hi the upper 32 bits.                   *)
(***************************************************************************)
HalfWord == 4

NullPtr == [lo |-> NULL, hi |-> 0]

PtrAdd(ptr, n) == [lo |-> ptr.lo + n, hi |-> ptr.hi]

PtrLess(a, b) == a.hi < b.hi \/ (a.hi = b.hi /\ a.lo < b.lo)

\* the cells the stores of a slab can reach: its slots and, past the last slot,
\* the upper half of a pointer stored in a slot of one half word
SlabCells(block, total_size) == {block.lo + k * HalfWord : k \in 0..(total_size \div HalfWord)}

\* *reinterpret_cast<void**>(addr) = w
StoreWord(cells, addr, w) == [cells EXCEPT ![addr] = w.lo, ![addr + HalfWord] = w.hi]

\* *static_cast<void**>(addr)
LoadWord(cells, addr) == [lo |-> cells[addr], hi |-> cells[addr + HalfWord]]

\* a pointer the program may load a word through
Readable(s, ptr) ==
    /\ ptr.hi = s.memory_block.hi
    /\ ptr.lo \in DOMAIN s.cells
    /\ ptr.lo + HalfWord \in DOMAIN s.cells

NoSlab == [memory_block |-> NullPtr, free_list_head |-> NullPtr, used_count |-> 0,
           slot_size |-> 0, total_size |-> 0, cells |-> <<>>]

\* the loop of RebuildFreeList and the store after it
RECURSIVE RebuildLoop(_, _, _, _, _)
RebuildLoop(cells, current, i, objects, slot_size) ==
    IF i < objects - 1
    THEN RebuildLoop(StoreWord(cells, current.lo, PtrAdd(current, slot_size)),
                     PtrAdd(current, slot_size), i + 1, objects, slot_size)
    ELSE StoreWord(cells, current.lo, NullPtr)

RebuildFreeList(s, objects) ==
    [s EXCEPT !.free_list_head = s.memory_block,
              !.cells = RebuildLoop(s.cells, s.memory_block, 0, objects, s.slot_size),
              !.used_count = 0]

SlabInitialize(size, objects, pages) ==
    RebuildFreeList([memory_block |-> pages, free_list_head |-> NullPtr,
                     used_count |-> 0, slot_size |-> size,
                     total_size |-> objects * size,
                     cells |-> [a \in SlabCells(pages, objects * size) |-> 0]],
                    objects)

\* Slab::Allocate; `wild` is what the load through a pointer that is not readable
\* does: it ends the program (wild.fault) or yields the word wild.word
SlabPop(s, wild) ==
    IF s.free_list_head = NullPtr
    THEN [failed |-> FALSE, result |-> NullPtr, self |-> s]
    ELSE IF Readable(s, s.free_list_head)
    THEN [failed |-> FALSE, result |-> s.free_list_head,
          self |-> [s EXCEPT !.free_list_head = LoadWord(s.cells, s.free_list_head.lo),
                             !.used_count = @ + 1]]
    ELSE IF wild.fault
    THEN [failed |-> TRUE, result |-> NullPtr, self |-> s]
    ELSE [failed |-> FALSE, result |-> s.free_list_head,
          self |-> [s EXCEPT !.free_list_head = wild.word, !.used_count = @ + 1]]

\* Slab::Deallocate of a pointer the slab contains
SlabPush(s, ptr) ==
    IF ptr = NullPtr
    THEN [failed |-> FALSE, self |-> s]
    ELSE IF ~(s.used_count > 0)
    THEN [failed |-> TRUE, self |-> s]
    ELSE [failed |-> FALSE,
          self |-> [s EXCEPT !.cells = StoreWord(s.cells, ptr.lo, s.free_list_head),
                             !.free_list_head = ptr,
                             !.used_count = @ - 1]]

SlabContains(s, objects, ptr) ==
    IF ptr = NullPtr \/ s.memory_block = NullPtr
    THEN FALSE
    ELSE /\ ~PtrLess(ptr, s.memory_block)
         /\ PtrLess(ptr, PtrAdd(s.memory_block, objects * s.slot_size))

SlabGetFreeCount(s, objects) == objects - s.used_count

SlabNull == [ObjectsPerSlab |-> 0, sizes_ |-> <<>>, slabs_ |-> <<>>]

\* sizes_: the size classes rounded up to powers of two
SlabSizes(SizeClasses) == [i \in DOMAIN SizeClasses |-> NextPowerOfTwo(SizeClasses[i])]

IsSorted(sizes) == \A i \in DOMAIN sizes : i + 1 \in DOMAIN sizes => sizes[i] < sizes[i + 1]

\* slab i is page-backed on its own; `high` is the upper half of the addresses
\* AllocatePages returns
SlabCtor(ObjectsPerSlab, SizeClasses, high) ==
    [ObjectsPerSlab |-> ObjectsPerSlab,
     sizes_ |-> SlabSizes(SizeClasses),
     slabs_ |-> [i \in DOMAIN SizeClasses |->
                    SlabInitialize(SlabSizes(SizeClasses)[i], ObjectsPerSlab,
                                   [lo |-> i * PageSize, hi |-> high])]]

NumSlabs(a) == Len(a.sizes_)

\* the index of the first size class that fits, NumSlabs + 1 when none does
\* (indices start at 1 in the model, at 0 in the code)
RECURSIVE FindSlabIndexFrom(_, _, _)
FindSlabIndexFrom(sizes, size, i) ==
    IF i > Len(sizes) THEN Len(sizes) + 1
    ELSE IF size <= sizes[i] THEN i
    ELSE FindSlabIndexFrom(sizes, size, i + 1)

FindSlabIndex(a, size) == FindSlabIndexFrom(a.sizes_, size, 1)

\* the rest of Allocate once the slab index is known
SlabAllocateAt(a, slab_index, wild) ==
    IF slab_index > NumSlabs(a)
    THEN [failed |-> FALSE, result |-> NullPtr, self |-> a]
    ELSE [failed |-> SlabPop(a.slabs_[slab_index], wild).failed,
          result |-> SlabPop(a.slabs_[slab_index], wild).result,
          self |-> [a EXCEPT !.slabs_[slab_index] =
                                 SlabPop(a.slabs_[slab_index], wild).self]]

SlabAllocate(a, size, alignment, wild) ==
    IF alignment > MaxAlign
    THEN [failed |-> TRUE, result |-> NullPtr, self |-> a]
    ELSE SlabAllocateAt(a, FindSlabIndex(a, size), wild)

\* the loop of Deallocate over the slabs, from slab i on
RECURSIVE SlabDeallocateFrom(_, _, _)
SlabDeallocateFrom(a, ptr, i) ==
    IF i > NumSlabs(a)
    THEN [failed |-> TRUE, self |-> a]
    ELSE IF SlabContains(a.slabs_[i], a.ObjectsPerSlab, ptr)
    THEN [failed |-> SlabPush(a.slabs_[i], ptr).failed,
          self |-> [a EXCEPT !.slabs_[i] = SlabPush(a.slabs_[i], ptr).self]]
    ELSE SlabDeallocateFrom(a, ptr, i + 1)

\* variant: a pointer that no slab contains is ignored like a null pointer
SlabDeallocate_IgnoresForeign(a, ptr) ==
    IF ptr = NullPtr
          \/ \A i \in DOMAIN a.slabs_ : ~SlabContains(a.slabs_[i], a.ObjectsPerSlab, ptr)
    THEN [failed |-> FALSE, self |-> a]
    ELSE SlabDeallocateFrom(a, ptr, 1)

SlabDeallocate(a, ptr) ==
    IF ptr = NullPtr
    THEN [failed |-> FALSE, self |-> a]
    ELSE SlabDeallocateFrom(a, ptr, 1)

SlabReset(a) ==
    [a EXCEPT !.slabs_ = [i \in DOMAIN a.slabs_ |->
                             RebuildFreeList(a.slabs_[i], a.ObjectsPerSlab)]]

GetSlabUsedCount(a, slab_index) == a.slabs_[slab_index].used_count

GetSlabFreeCount(a, slab_index) == SlabGetFreeCount(a.slabs_[slab_index], a.ObjectsPerSlab)

(***************************************************************************)
(* Client of a BuddyAllocator                                              *)
(***************************************************************************)
BuddySizes ==
    {1, MinBlockSize \div 4 - HeaderSize, MinBlockSize \div 2 - HeaderSize}
        \cup {GetBlockSize(k) - HeaderSize : k \in 0..MaxBuddyRequestLevel}
        \cup {GetBlockSize(k) - HeaderSize + 1 : k \in 0..(MaxBuddyRequestLevel - 1)}

BuddyAlignments == {8, 16, 32}

\* the block size a request of `size` bytes needs (spec 4.5)
BuddyNeed(size) ==
    IF NextPowerOfTwo(size + HeaderSize) < MinBlockSize
    THEN MinBlockSize
    ELSE NextPowerOfTwo(size + HeaderSize)

\* what the client keeps of a successful Allocate: the pointer and the block
\* size its request needs
BuddyHeld(p, size) == [p |-> p, need |-> BuddyNeed(size)]

InitBuddy ==
    /\ target = "buddy"
    /\ \E capacity \in 1..MaxBuddyCapacity, pages \in PageBases :
          bud = BuddyCtor(capacity, pages)
    /\ lin = LinearNull
    /\ stk = StackNull
    /\ gpu = GpuNull
    /\ threads = <<>>
    /\ budget = 0
    /\ held = {}
    /\ live = <<>>
    /\ markers = {}
    /\ pl = PoolAllocatorNull
    /\ slab = SlabNull
    /\ lastOp = NoOp
    /\ aborted = FALSE

DoBuddyAllocate ==
    /\ target = "buddy" /\ ~aborted
    /\ \E size \in BuddySizes, alignment \in BuddyAlignments :
          LET r == BuddyAllocate(bud, size, alignment)
          IN  /\ bud' = r.self
              /\ aborted' = r.failed
              /\ held' = IF r.result # NULL
                         THEN held \cup {BuddyHeld(r.result, size)}
                         ELSE held
              /\ lastOp' = [op |-> "Allocate", size |-> size, alignment |-> alignment,
                            arg |-> 0, before |-> BuddyGetUsedMemory(bud),
                            result |-> r.result]
    /\ UNCHANGED <<target, pl, slab, threads, lin, stk, gpu, budget, live, markers>>

DoBuddyDeallocate ==
    /\ target = "buddy" /\ ~aborted
    /\ \E a \in held \cup {[p |-> NULL, need |-> 0]} :
          /\ bud' = BuddyDeallocate(bud, a.p)
          /\ held' = held \ {a}
          /\ lastOp' = [op |-> "Deallocate", size |-> a.need, alignment |-> 0,
                        arg |-> a.p, before |-> BuddyGetUsedMemory(bud), result |-> 0]
    /\ UNCHANGED <<target, pl, slab, threads, lin, stk, gpu, budget, live, markers, aborted>>

NextBuddy ==
    \/ DoBuddyAllocate
    \/ DoBuddyDeallocate

SpecBuddy == InitBuddy /\ [][NextBuddy]_vars

(***************************************************************************)
(* Client of a GPUAllocator: it keeps the handles it got in MaxHandles     *)
(* variables, with the class it asked for                                  *)
(***************************************************************************)
GpuSizes == 0..MaxGpuSize

GpuAlignments == {1, 2, 4}

HandleSlots == 1..MaxHandles

NoHandle == [type |-> "DeviceLocal", allocation |-> NoAllocation]

GpuNoOp == [op |-> "none", size |-> 0, alignment |-> 0, type |-> "DeviceLocal",
            slot |-> 0, before |-> NoAllocation, result |-> NoAllocation]

\* the client of SpecGpu requests memory of every class; the client of
\* SpecGpuOneClass keeps to one class, which `target` names
GpuTargets == {"gpu"} \cup MemoryTypes

GpuClientTypes == IF target \in MemoryTypes THEN {target} ELSE MemoryTypes

InitGpu ==
    /\ target = "gpu"
    /\ \E memoryProperties \in DeviceMemoryTables :
          gpu = GpuCtor(memoryProperties, ConfigBlockSize, ConfigMaxBlocks)
    /\ lin = LinearNull
    /\ stk = StackNull
    /\ bud = BuddyNull
    /\ threads = <<>>
    /\ budget = MaxGpuAllocations
    /\ held = [h \in HandleSlots |-> NoHandle]
    /\ live = <<>>
    /\ markers = {}
    /\ pl = PoolAllocatorNull
    /\ slab = SlabNull
    /\ lastOp = GpuNoOp
    /\ aborted = FALSE

\* a client that allocates from one class only
InitGpuOneClass ==
    /\ target \in MemoryTypes
    /\ \E memoryProperties \in DeviceMemoryTables :
          gpu = GpuCtor(memoryProperties, ConfigBlockSize, ConfigMaxBlocks)
    /\ lin = LinearNull
    /\ stk = StackNull
    /\ bud = BuddyNull
    /\ threads = <<>>
    /\ budget = MaxGpuAllocations
    /\ held = [h \in HandleSlots |-> NoHandle]
    /\ live = <<>>
    /\ markers = {}
    /\ pl = PoolAllocatorNull
    /\ slab = SlabNull
    /\ lastOp = GpuNoOp
    /\ aborted = FALSE

\* the client stores the result in its first unused handle variable
DoGpuAllocate ==
    /\ target \in GpuTargets /\ ~aborted
    /\ budget > 0
    /\ budget' = budget - 1
    /\ \E h \in HandleSlots :
          /\ ~IsValid(held[h].allocation)
          /\ \A k \in HandleSlots : k < h => IsValid(held[k].allocation)
          /\ \E size \in GpuSizes, alignment \in GpuAlignments, type \in GpuClientTypes,
                allocateOk \in BOOLEAN, mapOk \in BOOLEAN :
                \E r \in {GpuAllocate(gpu, size, alignment, type, allocateOk, mapOk)} :
                    /\ gpu' = r.self
                    /\ aborted' = r.failed
                    /\ held' = [held EXCEPT ![h] = [type |-> type, allocation |-> r.result]]
                    /\ lastOp' = [op |-> "Allocate", size |-> size, alignment |-> alignment,
                                  type |-> type, slot |-> h, before |-> NoAllocation,
                                  result |-> r.result]
    /\ UNCHANGED <<target, pl, slab, threads, lin, stk, bud, live, markers>>

DoGpuDeallocate ==
    /\ target \in GpuTargets /\ ~aborted
    /\ \E h \in HandleSlots :
          \E r \in {GpuDeallocate(gpu, held[h].allocation)} :
              /\ gpu' = r.self
              /\ held' = [held EXCEPT ![h] = [type |-> IF IsValid(r.allocation)
                                                        THEN held[h].type
                                                        ELSE "DeviceLocal",
                                               allocation |-> r.allocation]]
              /\ lastOp' = [op |-> "Deallocate", size |-> 0, alignment |-> 0,
                            type |-> held[h].type, slot |-> h,
                            before |-> held[h].allocation, result |-> r.allocation]
    /\ UNCHANGED <<target, pl, slab, threads, lin, stk, bud, budget, live, markers, aborted>>

NextGpu ==
    \/ DoGpuAllocate
    \/ DoGpuDeallocate

SpecGpu == InitGpu /\ [][NextGpu]_vars

SpecGpuOneClass == InitGpuOneClass /\ [][NextGpu]_vars

(***************************************************************************)
(* Concurrent client of a GPUAllocator: MaxThreads threads, each with one  *)
(* handle variable, call Allocate and Deallocate. A call takes the steps   *)
(* GetPool (test of the pool pointer, creation of the pool), lock of       *)
(* pool.mutex, and the body that runs with the mutex held and releases it  *)
(* on return.                                                              *)
(***************************************************************************)
ThreadIds == 1..MaxThreads

IdleThread == [pc |-> "idle", op |-> "none", size |-> 0, alignment |-> 0,
               type |-> "DeviceLocal", ref |-> "none", stale |-> NoPool]

InitGpuThreads ==
    /\ target = "gpuThreads"
    /\ \E memoryProperties \in DeviceMemoryTables :
          gpu = GpuCtor(memoryProperties, ConfigBlockSize, ConfigMaxBlocks)
    /\ threads = [t \in ThreadIds |-> IdleThread]
    /\ budget = MaxThreadAllocations
    /\ lin = LinearNull
    /\ stk = StackNull
    /\ bud = BuddyNull
    /\ held = [t \in ThreadIds |-> NoHandle]
    /\ live = <<>>
    /\ markers = {}
    /\ pl = PoolAllocatorNull
    /\ slab = SlabNull
    /\ lastOp = GpuNoOp
    /\ aborted = FALSE

\* Allocate is entered: the assertion on size, then GetPool
CallAllocate(t) ==
    /\ target = "gpuThreads" /\ ~aborted
    /\ threads[t].pc = "idle"
    /\ ~IsValid(held[t].allocation)
    /\ budget > 0
    /\ budget' = budget - 1
    /\ \E size \in GpuSizes, alignment \in GpuAlignments, type \in MemoryTypes :
          IF ~(size > 0)
          THEN /\ aborted' = TRUE
               /\ UNCHANGED threads
          ELSE /\ threads' = [threads EXCEPT ![t] =
                                 [IdleThread EXCEPT !.pc = "GetPool", !.op = "Allocate",
                                                    !.size = size, !.alignment = alignment,
                                                    !.type = type]]
               /\ UNCHANGED aborted
    /\ UNCHANGED <<target, pl, slab, lin, stk, bud, gpu, held, live, markers, lastOp>>

\* Deallocate is entered: an invalid handle returns at once, else the class is
\* resolved from the pool pointers, then GetPool
CallDeallocate(t) ==
    /\ target = "gpuThreads" /\ ~aborted
    /\ threads[t].pc = "idle"
    /\ IF ~IsValid(held[t].allocation)
       THEN UNCHANGED threads
       ELSE threads' = [threads EXCEPT ![t] =
                           [IdleThread EXCEPT !.pc = "GetPool", !.op = "Deallocate",
                                              !.type = ResolveType(gpu, held[t].allocation)]]
    /\ UNCHANGED <<target, pl, slab, lin, stk, bud, gpu, budget, held, live, markers, lastOp, aborted>>

\* GetPool: the test `if (!pool)` of the pool pointer, outside any lock
GetPoolTest(t) ==
    /\ target = "gpuThreads" /\ ~aborted
    /\ threads[t].pc = "GetPool"
    /\ threads' = [threads EXCEPT ![t] =
                      IF gpu.pools[threads[t].type].exists
                      THEN [@ EXCEPT !.pc = "Lock", !.ref = "live"]
                      ELSE [@ EXCEPT !.pc = "Create"]]
    /\ UNCHANGED <<target, pl, slab, lin, stk, bud, gpu, budget, held, live, markers, lastOp, aborted>>

\* GetPool: make_unique assigned to the pool pointer. A pool the pointer owned
\* is destroyed by the assignment; the threads that hold a reference to it are
\* left with a dangling reference to the destroyed object (stale).
GetPoolCreate(t) ==
    /\ target = "gpuThreads" /\ ~aborted
    /\ threads[t].pc = "Create"
    /\ gpu' = CreatePool(gpu, threads[t].type)
    /\ threads' = [u \in ThreadIds |->
                      IF u = t THEN [threads[u] EXCEPT !.pc = "Lock", !.ref = "live"]
                      ELSE IF /\ threads[u].ref = "live"
                              /\ threads[u].type = threads[t].type
                              /\ gpu.pools[threads[t].type].exists
                      THEN [threads[u] EXCEPT !.ref = "dangling",
                                              !.stale = gpu.pools[threads[t].type]]
                      ELSE threads[u]]
    /\ UNCHANGED <<target, pl, slab, lin, stk, bud, budget, held, live, markers, lastOp, aborted>>

\* the pool the thread's reference designates
ThreadPool(t) ==
    IF threads[t].ref = "live" THEN gpu.pools[threads[t].type] ELSE threads[t].stale

\* the state after thread t stored `pool` into the object its reference designates
StorePool(t, pool, driverMemory) ==
    IF threads[t].ref = "live"
    THEN [g |-> [gpu EXCEPT !.pools[threads[t].type] = pool,
                            !.driverMemory = driverMemory],
          stale |-> NoPool]
    ELSE [g |-> [gpu EXCEPT !.driverMemory = driverMemory], stale |-> pool]

\* std::lock_guard<std::mutex> lock(pool.mutex): blocks while another thread owns it
Lock(t) ==
    /\ target = "gpuThreads" /\ ~aborted
    /\ threads[t].pc = "Lock"
    /\ ThreadPool(t).mutex = 0
    /\ \E r \in {StorePool(t, [ThreadPool(t) EXCEPT !.mutex = t], gpu.driverMemory)} :
           /\ gpu' = r.g
           /\ threads' = [threads EXCEPT ![t] = [@ EXCEPT !.pc = "Body", !.stale = r.stale]]
    /\ UNCHANGED <<target, pl, slab, lin, stk, bud, budget, held, live, markers, lastOp, aborted>>

\* the body of Allocate under the mutex; the mutex is released on return
AllocateBody(t) ==
    /\ target = "gpuThreads" /\ ~aborted
    /\ threads[t].pc = "Body" /\ threads[t].op = "Allocate"
    /\ \E allocateOk \in BOOLEAN, mapOk \in BOOLEAN :
          \E r \in {PoolAllocate(gpu, ThreadPool(t), threads[t].size, threads[t].alignment,
                                 allocateOk, mapOk)} :
              /\ gpu' = StorePool(t, [r.pool EXCEPT !.mutex = 0], r.driverMemory).g
              /\ aborted' = r.failed
              /\ held' = [held EXCEPT ![t] = [type |-> threads[t].type,
                                              allocation |-> r.result]]
              /\ lastOp' = [op |-> "Allocate", size |-> threads[t].size,
                            alignment |-> threads[t].alignment, type |-> threads[t].type,
                            slot |-> t, before |-> NoAllocation, result |-> r.result]
    /\ threads' = [threads EXCEPT ![t] = IdleThread]
    /\ UNCHANGED <<target, pl, slab, lin, stk, bud, budget, live, markers>>

\* the body of Deallocate under the mutex; the mutex is released on return
DeallocateBody(t) ==
    /\ target = "gpuThreads" /\ ~aborted
    /\ threads[t].pc = "Body" /\ threads[t].op = "Deallocate"
    /\ \E r \in {PoolDeallocate(ThreadPool(t), held[t].allocation)} :
           /\ gpu' = StorePool(t, [r.pool EXCEPT !.mutex = 0], gpu.driverMemory).g
           /\ held' = [held EXCEPT ![t] = [type |-> IF IsValid(r.allocation)
                                                     THEN held[t].type
                                                     ELSE "DeviceLocal",
                                            allocation |-> r.allocation]]
           /\ lastOp' = [op |-> "Deallocate", size |-> 0, alignment |-> 0,
                         type |-> threads[t].type, slot |-> t,
                         before |-> held[t].allocation, result |-> r.allocation]
    /\ threads' = [threads EXCEPT ![t] = IdleThread]
    /\ UNCHANGED <<target, pl, slab, lin, stk, bud, budget, live, markers, aborted>>

\* a thread that uses a destroyed pool has undefined behaviour: besides going on
\* with the storage of the destroyed object (Lock and the bodies above), the
\* program may crash
UseDestroyedPool(t) ==
    /\ target = "gpuThreads" /\ ~aborted
    /\ threads[t].ref = "dangling"
    /\ aborted' = TRUE
    /\ UNCHANGED <<target, pl, slab, lin, stk, bud, gpu, threads, budget, held, live, markers, lastOp>>

NextGpuThreads ==
    \E t \in ThreadIds :
        \/ CallAllocate(t)
        \/ CallDeallocate(t)
        \/ GetPoolTest(t)
        \/ GetPoolCreate(t)
        \/ Lock(t)
        \/ AllocateBody(t)
        \/ DeallocateBody(t)
        \/ UseDestroyedPool(t)

SpecGpuThreads == InitGpuThreads /\ [][NextGpuThreads]_vars

(***************************************************************************)
(* Client of a Linear or Stack allocator                                   *)
(***************************************************************************)
BumpSizes == 0..MaxBumpSize

BumpAlignments == {1, 2, 3, 4, 8}

\* allocations that end at or below the cursor position `top` survive a rewind
Surviving(allocs, top) == SelectSeq(allocs, LAMBDA a : a.p + a.size <= top)

InitBump ==
    /\ \E capacity \in 1..MaxBumpCapacity, pages \in PageBases :
          \/ target = "linear" /\ lin = LinearCtor(capacity, pages) /\ stk = StackNull
          \/ target = "stack" /\ stk = StackCtor(capacity, pages) /\ lin = LinearNull
    /\ bud = BuddyNull
    /\ gpu = GpuNull
    /\ threads = <<>>
    /\ budget = 0
    /\ held = {}
    /\ live = <<>>
    /\ markers = {}
    /\ pl = PoolAllocatorNull
    /\ slab = SlabNull
    /\ lastOp = NoOp
    /\ aborted = FALSE

DoLinearAllocate ==
    /\ target = "linear" /\ ~aborted
    /\ \E size \in BumpSizes, alignment \in BumpAlignments :
          LET r == LinearAllocate(lin, size, alignment)
          IN  /\ lin' = r.self
              /\ aborted' = r.failed
              /\ live' = IF r.result # NULL
                         THEN Append(live, Allocation(r.result, size))
                         ELSE live
              /\ lastOp' = [op |-> "Allocate", size |-> size, alignment |-> alignment,
                            arg |-> 0, before |-> LinearGetUsedMemory(lin),
                            result |-> r.result]
    /\ UNCHANGED <<target, pl, slab, threads, bud, gpu, budget, held, stk, markers>>

DoLinearDeallocate ==
    /\ target = "linear" /\ ~aborted
    /\ \E ptr \in {NULL, lin.base_ - 1} \cup {live[i].p : i \in DOMAIN live} :
          /\ lin' = LinearDeallocate(lin, ptr)
          /\ lastOp' = [op |-> "Deallocate", size |-> 0, alignment |-> 0, arg |-> ptr,
                        before |-> LinearGetUsedMemory(lin), result |-> 0]
    /\ UNCHANGED <<target, pl, slab, threads, bud, gpu, budget, held, stk, live, markers, aborted>>

DoLinearReset ==
    /\ target = "linear" /\ ~aborted
    /\ lin' = LinearReset(lin)
    /\ live' = <<>>
    /\ lastOp' = [op |-> "Reset", size |-> 0, alignment |-> 0, arg |-> 0,
                  before |-> LinearGetUsedMemory(lin), result |-> 0]
    /\ UNCHANGED <<target, pl, slab, threads, bud, gpu, budget, held, stk, markers, aborted>>

DoLinearGetMarker ==
    /\ target = "linear" /\ ~aborted
    /\ Cardinality(markers \cup {LinearGetMarker(lin)}) <= MaxMarkers
    /\ markers' = markers \cup {LinearGetMarker(lin)}
    /\ lastOp' = [op |-> "GetMarker", size |-> 0, alignment |-> 0, arg |-> 0,
                  before |-> LinearGetUsedMemory(lin), result |-> LinearGetMarker(lin)]
    /\ UNCHANGED <<target, pl, slab, threads, bud, gpu, budget, held, lin, stk, live, aborted>>

DoLinearResetToMarker ==
    /\ target = "linear" /\ ~aborted
    /\ \E marker \in markers :
          LET r == LinearResetToMarker(lin, marker)
          IN  /\ lin' = r.self
              /\ aborted' = r.failed
              /\ live' = IF r.failed THEN live ELSE Surviving(live, marker)
              /\ lastOp' = [op |-> "ResetToMarker", size |-> 0, alignment |-> 0,
                            arg |-> marker, before |-> LinearGetUsedMemory(lin),
                            result |-> 0]
    /\ UNCHANGED <<target, pl, slab, threads, bud, gpu, budget, held, stk, markers>>

DoStackAllocate ==
    /\ target = "stack" /\ ~aborted
    /\ \E size \in BumpSizes, alignment \in BumpAlignments :
          LET r == StackAllocate(stk, size, alignment)
          IN  /\ stk' = r.self
              /\ aborted' = r.failed
              /\ live' = IF r.result # NULL
                         THEN Append(live, Allocation(r.result, size))
                         ELSE live
              /\ lastOp' = [op |-> "Allocate", size |-> size, alignment |-> alignment,
                            arg |-> 0, before |-> StackGetUsedMemory(stk),
                            result |-> r.result]
    /\ UNCHANGED <<target, pl, slab, threads, bud, gpu, budget, held, lin, markers>>

DoStackDeallocate ==
    /\ target = "stack" /\ ~aborted
    /\ \E ptr \in {NULL, stk.memory_block_ - 1} \cup {live[i].p : i \in DOMAIN live} :
          /\ stk' = StackDeallocate(stk, ptr)
          /\ lastOp' = [op |-> "Deallocate", size |-> 0, alignment |-> 0, arg |-> ptr,
                        before |-> StackGetUsedMemory(stk), result |-> 0]
    /\ UNCHANGED <<target, pl, slab, threads, bud, gpu, budget, held, lin, live, markers, aborted>>

DoStackReset ==
    /\ target = "stack" /\ ~aborted
    /\ stk' = StackReset(stk)
    /\ live' = <<>>
    /\ lastOp' = [op |-> "Reset", size |-> 0, alignment |-> 0, arg |-> 0,
                  before |-> StackGetUsedMemory(stk), result |-> 0]
    /\ UNCHANGED <<target, pl, slab, threads, bud, gpu, budget, held, lin, markers, aborted>>

DoStackGetMarker ==
    /\ target = "stack" /\ ~aborted
    /\ Cardinality(markers \cup {StackGetMarker(stk)}) <= MaxMarkers
    /\ markers' = markers \cup {StackGetMarker(stk)}
    /\ lastOp' = [op |-> "GetMarker", size |-> 0, alignment |-> 0, arg |-> 0,
                  before |-> StackGetUsedMemory(stk), result |-> StackGetMarker(stk)]
    /\ UNCHANGED <<target, pl, slab, threads, bud, gpu, budget, held, lin, stk, live, aborted>>

DoStackFreeToMarker ==
    /\ target = "stack" /\ ~aborted
    /\ \E marker \in markers :
          LET r == StackFreeToMarker(stk, marker)
          IN  /\ stk' = r.self
              /\ aborted' = r.failed
              /\ live' = IF r.failed THEN live
                         ELSE Surviving(live, stk.memory_block_ + marker)
              /\ lastOp' = [op |-> "FreeToMarker", size |-> 0, alignment |-> 0,
                            arg |-> marker, before |-> StackGetUsedMemory(stk),
                            result |-> 0]
    /\ UNCHANGED <<target, pl, slab, threads, bud, gpu, budget, held, lin, markers>>

NextBump ==
    \/ DoLinearAllocate
    \/ DoLinearDeallocate
    \/ DoLinearReset
    \/ DoLinearGetMarker
    \/ DoLinearResetToMarker
    \/ DoStackAllocate
    \/ DoStackDeallocate
    \/ DoStackReset
    \/ DoStackGetMarker
    \/ DoStackFreeToMarker

SpecBump == InitBump /\ [][NextBump]_vars

(***************************************************************************)
(* Client of a Pool or Slab allocator                                      *)
(* It deallocates only pointers it holds from the allocator (and null, and *)
(* for a Slab one foreign pointer), and forgets them all at Reset.         *)
(***************************************************************************)
PoolRequestSizes == {1, 4, 16, 17}

PoolRequestAlignments == {1, 8, 16}

\* what the client stores in the first word of an object it holds
PoolClientWords(p) == {NULL, p.memory_block_}

\* size classes the slab allocators are instantiated with
SlabSizeClassLists == {<<3>>, <<8, 12>>}

SlabRequestSizes == {1, 9, 17}

SlabRequestAlignments == {8, 16, 32}

\* upper halves of the addresses AllocatePages returns
AddressHighs == {0, 1}

\* outcomes of a load through a pointer that is not readable: the program ends,
\* or the load yields a word, here the null word
WildLoads ==
    {[fault |-> TRUE, word |-> NullPtr],
     [fault |-> FALSE, word |-> NullPtr]}

\* a pointer that no slab contains
ForeignPtr(a) == PtrAdd(a.slabs_[1].memory_block, -HalfWord)

\* what the client of a slab allocator keeps of a successful Allocate: the
\* pointer, how many times it now holds that pointer, and the size it asked for
SlabHeld(ptr, k, size) == [p |-> ptr, k |-> k, size |-> size]

HeldTimes(ptr) == Cardinality({h \in held : h.p = ptr})

InitPoolSlab ==
    /\ \/ /\ target = "pool"
          /\ \E capacity \in 1..MaxPoolCapacity, T \in PoolTypes, pages \in PageBases :
                pl = PoolAllocatorCtor(capacity, T, pages)
          /\ slab = SlabNull
       \/ /\ target = "slab"
          /\ \E objects \in 1..MaxObjectsPerSlab, classes \in SlabSizeClassLists,
                high \in AddressHighs :
                /\ IsSorted(SlabSizes(classes))
                /\ slab = SlabCtor(objects, classes, high)
          /\ pl = PoolAllocatorNull
    /\ lin = LinearNull
    /\ stk = StackNull
    /\ bud = BuddyNull
    /\ gpu = GpuNull
    /\ threads = <<>>
    /\ budget = 0
    /\ held = {}
    /\ live = <<>>
    /\ markers = {}
    /\ lastOp = NoOp
    /\ aborted = FALSE

DoPoolAllocate ==
    /\ target = "pool" /\ ~aborted
    /\ \E size \in PoolRequestSizes, alignment \in PoolRequestAlignments :
       \E r \in {PoolAllocatorAllocate(pl, size, alignment)} :
          /\ pl' = r.self
          /\ aborted' = r.failed
          /\ held' = IF r.result # NULL THEN held \cup {r.result} ELSE held
          /\ lastOp' = [op |-> "Allocate", size |-> size, alignment |-> alignment,
                        arg |-> 0, before |-> PoolAllocatorGetUsedCount(pl),
                        result |-> r.result]
    /\ UNCHANGED <<target, slab, lin, stk, bud, gpu, threads, budget, live, markers>>

DoPoolDeallocate ==
    /\ target = "pool" /\ ~aborted
    /\ \E ptr \in held \cup {NULL} :
       \E r \in {PoolAllocatorDeallocate(pl, ptr)} :
          /\ pl' = r.self
          /\ aborted' = r.failed
          /\ held' = held \ {ptr}
          /\ lastOp' = [op |-> "Deallocate", size |-> 0, alignment |-> 0,
                        arg |-> ptr, before |-> PoolAllocatorGetUsedCount(pl), result |-> 0]
    /\ UNCHANGED <<target, slab, lin, stk, bud, gpu, threads, budget, live, markers>>

DoPoolReset ==
    /\ target = "pool" /\ ~aborted
    /\ pl' = PoolAllocatorReset(pl)
    /\ held' = {}
    /\ lastOp' = [op |-> "Reset", size |-> 0, alignment |-> 0, arg |-> 0,
                  before |-> PoolAllocatorGetUsedCount(pl), result |-> 0]
    /\ UNCHANGED <<target, slab, lin, stk, bud, gpu, threads, budget, live, markers,
                   aborted>>

\* the client writes into an object it holds
DoPoolWrite ==
    /\ target = "pool" /\ ~aborted
    /\ \E ptr \in held, w \in PoolClientWords(pl) :
          /\ pl' = [pl EXCEPT !.mem[ptr] = w]
          /\ lastOp' = [op |-> "Write", size |-> 0, alignment |-> 0, arg |-> ptr,
                        before |-> PoolAllocatorGetUsedCount(pl), result |-> 0]
    /\ UNCHANGED <<target, slab, lin, stk, bud, gpu, threads, budget, held, live,
                   markers, aborted>>

\* a free list that a store has bent into a cycle serves requests for ever:
\* the client stops asking once a slab counts more objects than it has slots
DoSlabAllocate ==
    /\ target = "slab" /\ ~aborted
    /\ \A i \in DOMAIN slab.slabs_ : GetSlabUsedCount(slab, i) <= slab.ObjectsPerSlab
    /\ \E size \in SlabRequestSizes, alignment \in SlabRequestAlignments,
          wild \in WildLoads :
       \E r \in {SlabAllocate(slab, size, alignment, wild)} :
          /\ slab' = r.self
          /\ aborted' = r.failed
          /\ held' = IF r.result # NullPtr
                     THEN held \cup {SlabHeld(r.result, HeldTimes(r.result) + 1, size)}
                     ELSE held
          /\ lastOp' = [op |-> "Allocate", size |-> size, alignment |-> alignment,
                        arg |-> NullPtr, before |-> 0, result |-> r.result]
    /\ UNCHANGED <<target, pl, lin, stk, bud, gpu, threads, budget, live, markers>>

DoSlabDeallocate ==
    /\ target = "slab" /\ ~aborted
    /\ \E ptr \in {h.p : h \in held} \cup {NullPtr, ForeignPtr(slab)} :
       \E r \in {SlabDeallocate(slab, ptr)} :
          /\ slab' = r.self
          /\ aborted' = r.failed
          /\ held' = {h \in held : ~(h.p = ptr /\ h.k = HeldTimes(ptr))}
          /\ lastOp' = [op |-> "Deallocate", size |-> 0, alignment |-> 0,
                        arg |-> ptr, before |-> 0, result |-> NullPtr]
    /\ UNCHANGED <<target, pl, lin, stk, bud, gpu, threads, budget, live, markers>>

DoSlabReset ==
    /\ target = "slab" /\ ~aborted
    /\ slab' = SlabReset(slab)
    /\ held' = {}
    /\ lastOp' = [op |-> "Reset", size |-> 0, alignment |-> 0, arg |-> NullPtr,
                  before |-> 0, result |-> NullPtr]
    /\ UNCHANGED <<target, pl, lin, stk, bud, gpu, threads, budget, live, markers,
                   aborted>>

NextPoolSlab ==
    \/ DoPoolAllocate
    \/ DoPoolDeallocate
    \/ DoPoolReset
    \/ DoPoolWrite
    \/ DoSlabAllocate
    \/ DoSlabDeallocate
    \/ DoSlabReset

SpecPoolSlab == InitPoolSlab /\ [][NextPoolSlab]_vars

(***************************************************************************)
(* Views of the constructed Linear or Stack allocator                      *)
(***************************************************************************)
BumpBase == IF target = "linear" THEN lin.base_ ELSE stk.memory_block_

BumpUsed == IF target = "linear" THEN LinearGetUsedMemory(lin) ELSE StackGetUsedMemory(stk)

BumpCapacity == IF target = "linear" THEN lin.capacity_ ELSE stk.capacity_

BumpCursor == BumpBase + BumpUsed

\* the least multiple of a that is >= x
LeastMultipleAtLeast(x, a) == CHOOSE y \in x..(x + a - 1) : y % a = 0

(***************************************************************************)
(* Blocks of the allocations a buddy client holds                          *)
(***************************************************************************)
BuddyBlockStart(a) == a.p - HeaderSize

BuddyBlockEnd(a) == a.p - HeaderSize + a.need

(***************************************************************************)
(* Views of the GPU allocator and of the handles its client holds          *)
(***************************************************************************)
GpuBlocks ==
    UNION {{gpu.pools[t].blocks[i] : i \in DOMAIN gpu.pools[t].blocks} : t \in MemoryTypes}

LiveHandles == {h \in DOMAIN held : IsValid(held[h].allocation)}

HandlesOverlap(a, b) ==
    /\ a.memory = b.memory
    /\ a.offset < b.offset + b.size
    /\ b.offset < a.offset + a.size

(***************************************************************************)
(* C1: GPU Allocate: every valid handle returned has offset % alignment    *)
(* == 0, its range [offset, offset + size) lies inside its block, and it   *)
(* is disjoint from the range of every other live handle of the same       *)
(* block, after any sequence of Allocate and Deallocate calls.             *)
(***************************************************************************)
C1_HandleAlignedInsideDisjoint ==
    target = "gpu" =>
        /\ (lastOp.op = "Allocate" /\ IsValid(lastOp.result)) =>
               lastOp.result.offset % lastOp.alignment = 0
        /\ \A h \in LiveHandles : \A b \in GpuBlocks :
               b.memory = held[h].allocation.memory =>
                   /\ 0 <= held[h].allocation.offset
                   /\ held[h].allocation.offset + held[h].allocation.size <= b.size
        /\ \A h1, h2 \in LiveHandles :
               h1 # h2 => ~HandlesOverlap(held[h1].allocation, held[h2].allocation)

(***************************************************************************)
(* C2: GPU round trip: Deallocate(Allocate(s, a)) leaves the used byte     *)
(* count of the block unchanged, also for requests that need alignment     *)
(* padding: once every handle the client got has been deallocated, the     *)
(* allocated bytes of every memory class are 0.                            *)
(***************************************************************************)
C2_RoundTripRestoresUsed ==
    (target = "gpu" /\ LiveHandles = {}) =>
        \A t \in MemoryTypes : PoolGetAllocatedSize(gpu.pools[t]) = 0

(***************************************************************************)
(* C3: the GPU allocator is thread-safe: for threads that call Allocate    *)
(* and Deallocate concurrently, also when two of them make the first use   *)
(* of a class, one pool is constructed per class, every live handle lies   *)
(* in a block of a pool of the allocator (as after the calls in any        *)
(* sequential order), and no two live handles overlap.                     *)
(***************************************************************************)
C3_OnePoolPerClassHandlesTracked ==
    target = "gpuThreads" =>
        /\ \A type \in MemoryTypes : gpu.poolsCreated[type] <= 1
        /\ \A t \in LiveHandles : \E b \in GpuBlocks : b.memory = held[t].allocation.memory
        /\ \A t1, t2 \in LiveHandles :
               t1 # t2 => ~HandlesOverlap(held[t1].allocation, held[t2].allocation)

(***************************************************************************)
(* C4: Buddy: once every allocation has been deallocated, in any order,    *)
(* the free lists are as after construction: exactly one free block, at    *)
(* offset 0 on the top level, every other level empty, used == 0, and an   *)
(* allocation of C - header bytes succeeds.                                *)
(***************************************************************************)
C4_FullCycleRestoresInitialState ==
    held = {} =>
        /\ \E top \in Levels :
              /\ bud.free_lists_[top] = <<bud.memory_block_>>
              /\ \A k \in Levels \ {top} : bud.free_lists_[k] = <<>>
              /\ \A k \in Levels : GetBlockSize(k) >= bud.capacity_ => top <= k
        /\ bud.used_memory_ = 0
        /\ BuddyAllocate(bud, bud.capacity_ - HeaderSize, 1).result
              = bud.memory_block_ + HeaderSize

\* the last of several allocations was freed: a 64-byte block of a 256-byte arena
C4_Witness ==
    /\ held = {}
    /\ lastOp.op = "Deallocate" /\ lastOp.arg # NULL
    /\ lastOp.arg # bud.memory_block_ + HeaderSize
    /\ lastOp.before = MinBlockSize
    /\ bud.capacity_ = 4 * MinBlockSize

(***************************************************************************)
(* C5: Buddy: used <= capacity (the rounded capacity C of GetTotalMemory)  *)
(* after every operation, for every construction capacity >= 1, also when  *)
(* the rounded capacity is below the 64-byte minimum block.                *)
(***************************************************************************)
C5_UsedWithinCapacity ==
    0 <= BuddyGetUsedMemory(bud) /\ BuddyGetUsedMemory(bud) <= BuddyGetTotalMemory(bud)

(***************************************************************************)
(* C6: Buddy Allocate(size, a): every non-null address p returned has      *)
(* p mod a == 0 for every accepted alignment a (a <= alignof(max_align_t), *)
(* up to 16), with a page-aligned arena and the header before the payload. *)
(***************************************************************************)
C6_ReturnedAddressAligned ==
    (lastOp.op = "Allocate" /\ lastOp.result # NULL /\ ~aborted) =>
        /\ lastOp.alignment <= MaxAlign
        /\ lastOp.result % lastOp.alignment = 0

(***************************************************************************)
(* C7: Buddy: the block [p - header, p - header + need) of every live      *)
(* allocation lies inside the arena [base, base + C), the blocks of two    *)
(* live allocations are disjoint, and no live block overlaps a block on a  *)
(* free list.                                                              *)
(***************************************************************************)
C7_BlocksInsideArenaAndDisjoint ==
    /\ \A a \in held :
          /\ bud.memory_block_ <= BuddyBlockStart(a)
          /\ BuddyBlockEnd(a) <= bud.memory_block_ + bud.capacity_
    /\ \A a, b \in held :
          a # b => BuddyBlockEnd(a) <= BuddyBlockStart(b)
                   \/ BuddyBlockEnd(b) <= BuddyBlockStart(a)
    /\ \A a \in held : \A k \in Levels : \A i \in DOMAIN bud.free_lists_[k] :
          LET f == bud.free_lists_[k][i]
          IN  f + GetBlockSize(k) <= BuddyBlockStart(a) \/ BuddyBlockEnd(a) <= f

(***************************************************************************)
(* C8: Linear and Stack Allocate(size, align) succeeds exactly when        *)
(* (align_up(current, align) - current) + size <= capacity - used; on      *)
(* success it returns align_up(current, align) and the cursor becomes that *)
(* address + size; otherwise it returns null and used is unchanged. On an  *)
(* empty allocator a request of capacity bytes succeeds and a request of   *)
(* capacity + 1 bytes returns null with used == 0.                         *)
(***************************************************************************)
C8_AllocateExactFit ==
    (lastOp.op = "Allocate" /\ ~aborted) =>
        LET current == BumpBase + lastOp.before
            aligned == LeastMultipleAtLeast(current, lastOp.alignment)
            fits == (aligned - current) + lastOp.size <= BumpCapacity - lastOp.before
        IN  /\ (lastOp.result # NULL) <=> fits
            /\ fits => lastOp.result = aligned /\ BumpCursor = aligned + lastOp.size
            /\ ~fits => BumpUsed = lastOp.before
            /\ (lastOp.before = 0 /\ lastOp.size = BumpCapacity) =>
                   lastOp.result = BumpBase /\ BumpUsed = BumpCapacity
            /\ (lastOp.before = 0 /\ lastOp.size = BumpCapacity + 1) =>
                   lastOp.result = NULL /\ BumpUsed = 0

\* an allocation that succeeded after alignment padding and filled the arena
C8_Witness ==
    /\ lastOp.op = "Allocate" /\ ~aborted
    /\ lastOp.result # NULL
    /\ lastOp.result > BumpBase + lastOp.before
    /\ BumpUsed = BumpCapacity

(***************************************************************************)
(* C9: Linear and Stack: 0 <= used <= capacity after every operation, for  *)
(* any sequence of Allocate, Deallocate, Reset, GetMarker and rewinds to   *)
(* markers previously obtained from the same allocator.                    *)
(***************************************************************************)
C9_UsedWithinCapacity == 0 <= BumpUsed /\ BumpUsed <= BumpCapacity

\* a rewind to a marker taken before a Reset moved the cursor forward to the end
C9_Witness ==
    /\ lastOp.op \in {"ResetToMarker", "FreeToMarker"} /\ ~aborted
    /\ lastOp.arg # BumpBase + lastOp.before /\ lastOp.arg # lastOp.before
    /\ BumpUsed = BumpCapacity

(***************************************************************************)
(* C10: Linear and Stack: every non-null address p returned by             *)
(* Allocate(size, a) has p mod a == 0, [p, p+size) lies inside             *)
(* [base, base+capacity), and the allocations made since the last Reset or *)
(* rewind that released them are pairwise disjoint, at strictly increasing *)
(* addresses.                                                              *)
(***************************************************************************)
C10_AlignedInsideDisjoint ==
    /\ (lastOp.op = "Allocate" /\ lastOp.result # NULL) =>
           lastOp.result % lastOp.alignment = 0
    /\ \A i \in DOMAIN live :
           /\ BumpBase <= live[i].p
           /\ live[i].p + live[i].size <= BumpBase + BumpCapacity
    /\ \A i, j \in DOMAIN live :
           i < j => live[i].p + live[i].size <= live[j].p /\ live[i].p < live[j].p

\* a second live allocation that needed padding to reach its alignment
C10_Witness ==
    /\ lastOp.op = "Allocate" /\ lastOp.result # NULL
    /\ lastOp.alignment > 1
    /\ Len(live) >= 2
    /\ live[Len(live)].p = lastOp.result
    /\ live[Len(live)].p > live[Len(live) - 1].p + live[Len(live) - 1].size

(***************************************************************************)
(* C11: Linear: ResetToMarker(m) is accepted only for a marker m in        *)
(* [base, current]; a marker beyond the cursor is rejected, so an accepted *)
(* ResetToMarker never increases used.                                     *)
(***************************************************************************)
C11_ResetToMarkerNeverIncreasesUsed ==
    (target = "linear" /\ lastOp.op = "ResetToMarker") =>
        /\ lastOp.arg > lin.base_ + lastOp.before => aborted
        /\ LinearGetUsedMemory(lin) <= lastOp.before

(***************************************************************************)
(* C12: Stack: FreeToMarker(m) with m <= current sets used to exactly m    *)
(* and changes nothing else; with m > current (or m > capacity) the        *)
(* assertion fails and the allocator is unchanged; Reset() has the effect  *)
(* of FreeToMarker(0).                                                     *)
(***************************************************************************)
C12_FreeToMarkerSetsUsed ==
    [][(target = "stack" /\ lastOp'.op = "FreeToMarker") =>
          IF lastOp'.arg <= stk.current_ /\ lastOp'.arg <= stk.capacity_
          THEN /\ ~aborted'
               /\ stk' = [stk EXCEPT !.current_ = lastOp'.arg]
               /\ StackGetUsedMemory(stk') = lastOp'.arg
          ELSE aborted' /\ stk' = stk]_vars
    /\ [][(target = "stack" /\ lastOp'.op = "Reset") =>
             stk' = StackFreeToMarker(stk, 0).self /\ ~aborted']_vars

\* a FreeToMarker that released bytes, to a marker above 0
C12_Witness ==
    /\ target = "stack" /\ lastOp.op = "FreeToMarker" /\ ~aborted
    /\ lastOp.arg > 0 /\ lastOp.arg < lastOp.before
    /\ StackGetUsedMemory(stk) = lastOp.arg

(***************************************************************************)
(* C13: Linear and Stack markers: a rewind to a marker restores used to    *)
(* the value it had when GetMarker returned the marker, a rewind to        *)
(* GetMarker() with nothing in between changes nothing, and the same       *)
(* requests repeated after the rewind (or after Reset) return the same     *)
(* addresses as the first time: two requests made right after GetMarker,   *)
(* Reset or construction, then undone, are made again.                     *)
(***************************************************************************)
ReplaySizes == {1, 2}

ReplayAlignments == {1, 2}

\* used at the moment GetMarker returned `marker`
UsedAtMarker(marker) == IF target = "linear" THEN marker - lin.base_ ELSE marker

\* the addresses of two Linear requests made from state l, first to last
LinearTwoRequests(l, s1, a1, s2, a2) ==
    <<LinearAllocate(l, s1, a1).result,
      LinearAllocate(LinearAllocate(l, s1, a1).self, s2, a2).result>>

LinearAfterTwoRequests(l, s1, a1, s2, a2) ==
    LinearAllocate(LinearAllocate(l, s1, a1).self, s2, a2).self

StackTwoRequests(s, s1, a1, s2, a2) ==
    <<StackAllocate(s, s1, a1).result,
      StackAllocate(StackAllocate(s, s1, a1).self, s2, a2).result>>

StackAfterTwoRequests(s, s1, a1, s2, a2) ==
    StackAllocate(StackAllocate(s, s1, a1).self, s2, a2).self

\* the requests s1, a1 and s2, a2 return the same addresses from l as from again
SameAddresses(l, again, s1, a1, s2, a2) ==
    LinearTwoRequests(again, s1, a1, s2, a2) = LinearTwoRequests(l, s1, a1, s2, a2)

StackSameAddresses(s, again, s1, a1, s2, a2) ==
    StackTwoRequests(again, s1, a1, s2, a2) = StackTwoRequests(s, s1, a1, s2, a2)

C13_MarkersRestore ==
    /\ (lastOp.op \in {"ResetToMarker", "FreeToMarker"} /\ ~aborted) =>
           BumpUsed = UsedAtMarker(lastOp.arg)
    /\ target = "linear" =>
           /\ LinearResetToMarker(lin, LinearGetMarker(lin)) = [failed |-> FALSE, self |-> lin]
           /\ lastOp.op \in {"none", "Reset", "GetMarker"} =>
              \A s1, s2 \in ReplaySizes, a1, a2 \in ReplayAlignments :
              \A after \in {LinearAfterTwoRequests(lin, s1, a1, s2, a2)} :
              \A rewound \in {LinearResetToMarker(after, LinearGetMarker(lin)).self} :
                 /\ SameAddresses(lin, rewound, s1, a1, s2, a2)
                 /\ SameAddresses(LinearReset(lin), LinearReset(after), s1, a1, s2, a2)
    /\ target = "stack" =>
           /\ StackFreeToMarker(stk, StackGetMarker(stk)) = [failed |-> FALSE, self |-> stk]
           /\ lastOp.op \in {"none", "Reset", "GetMarker"} =>
              \A s1, s2 \in ReplaySizes, a1, a2 \in ReplayAlignments :
              \A after \in {StackAfterTwoRequests(stk, s1, a1, s2, a2)} :
              \A rewound \in {StackFreeToMarker(after, StackGetMarker(stk)).self} :
                 /\ StackSameAddresses(stk, rewound, s1, a1, s2, a2)
                 /\ StackSameAddresses(StackReset(stk), StackReset(after), s1, a1, s2, a2)

\* a rewind that released an allocation, from a state in which two further
\* requests still fit
C13_Witness ==
    /\ lastOp.op \in {"ResetToMarker", "FreeToMarker"} /\ ~aborted
    /\ BumpUsed < lastOp.before
    /\ BumpUsed > 0
    /\ BumpCapacity - BumpUsed >= 2

(***************************************************************************)
(* C14: Linear and Stack: used never decreases between two reset-type      *)
(* calls: Allocate increases used or leaves it unchanged, and              *)
(* Deallocate(p) for any p (null, foreign or live) leaves the whole        *)
(* allocator unchanged.                                                    *)
(***************************************************************************)
C14_UsedMonotonicBetweenResets ==
    [][/\ lastOp'.op = "Allocate" => BumpUsed' >= BumpUsed
       /\ lastOp'.op = "Deallocate" => lin' = lin /\ stk' = stk /\ ~aborted'
       /\ BumpUsed' < BumpUsed =>
              lastOp'.op \in {"Reset", "ResetToMarker", "FreeToMarker"}]_vars

\* a Deallocate of a live allocation while bytes are in use
C14_Witness ==
    /\ lastOp.op = "Deallocate"
    /\ lastOp.arg # NULL /\ \E i \in DOMAIN live : live[i].p = lastOp.arg
    /\ BumpUsed > 0

(***************************************************************************)
(* C15: Linear Allocate accepts a zero-size request: Allocate(0, a) with a *)
(* power-of-two a trips no assertion, and used <= capacity holds after it. *)
(***************************************************************************)
C15_ZeroSizeAccepted ==
    (target = "linear" /\ lastOp.op = "Allocate" /\ lastOp.size = 0
        /\ IsPowerOfTwo(lastOp.alignment)) =>
        /\ ~aborted
        /\ LinearGetUsedMemory(lin) <= lin.capacity_

(***************************************************************************)
(* Views of the constructed Pool or Slab allocator                         *)
(***************************************************************************)
\* the slots reached from address a by following the links, at most `fuel` of them
RECURSIVE PoolWalk(_, _, _)
PoolWalk(mem, a, fuel) ==
    IF a = NULL \/ fuel = 0 THEN <<>>
    ELSE IF a \notin DOMAIN mem THEN <<a>>
    ELSE <<a>> \o PoolWalk(mem, mem[a], fuel - 1)

\* the free list of a pool, cut off after capacity_ + 1 links
PoolFreeList(p) == PoolWalk(p.mem, p.free_list_head_, p.capacity_ + 1)

Range(seq) == {seq[i] : i \in DOMAIN seq}

\* the addresses of n slots in slot order
SlotsInOrder(block, slot_size, n) == [k \in 1..n |-> block + (k - 1) * slot_size]

\* the results of n calls of Allocate on a pool
RECURSIVE PoolAllocatorDrain(_, _)
PoolAllocatorDrain(p, n) ==
    IF n = 0 THEN <<>>
    ELSE <<PoolAllocatorAllocate(p, 1, 1).result>>
         \o PoolAllocatorDrain(PoolAllocatorAllocate(p, 1, 1).self, n - 1)

\* the results of n calls of Allocate served by slab i, until one ends the program
RECURSIVE SlabDrain(_, _, _, _)
SlabDrain(a, i, n, wild) ==
    IF n = 0 \/ SlabAllocate(a, a.sizes_[i], 1, wild).failed THEN <<>>
    ELSE <<SlabAllocate(a, a.sizes_[i], 1, wild).result>>
         \o SlabDrain(SlabAllocate(a, a.sizes_[i], 1, wild).self, i, n - 1, wild)

\* the slots of slab i in slot order, as pointers
SlabSlotsInOrder(a, i) ==
    [k \in 1..a.ObjectsPerSlab |->
        PtrAdd(a.slabs_[i].memory_block, (k - 1) * a.slabs_[i].slot_size)]

\* a request the pool accepts
PoolAccepts(p, size, alignment) == size <= p.T.size /\ alignment <= p.T.align

(***************************************************************************)
(* C16: Pool<T>: after every sequence of Allocate, Deallocate of pointers  *)
(* currently live and Reset, the free list is acyclic and holds exactly    *)
(* capacity - used_count distinct slots, the live slots are exactly        *)
(* used_count distinct slots, the two sets are disjoint and together are   *)
(* all the slots, and 0 <= used_count <= capacity.                         *)
(***************************************************************************)
C16_FreeAndLivePartitionSlots ==
    target = "pool" =>
        /\ Len(PoolFreeList(pl)) = PoolAllocatorGetCapacity(pl) - PoolAllocatorGetUsedCount(pl)
        /\ Cardinality(Range(PoolFreeList(pl))) = Len(PoolFreeList(pl))
        /\ Cardinality(held) = PoolAllocatorGetUsedCount(pl)
        /\ Range(PoolFreeList(pl)) \cap held = {}
        /\ Range(PoolFreeList(pl)) \cup held
              = PoolSlots(pl.memory_block_, pl.capacity_, PoolSlotSize(pl.T))
        /\ 0 <= PoolAllocatorGetUsedCount(pl)
        /\ PoolAllocatorGetUsedCount(pl) <= PoolAllocatorGetCapacity(pl)

\* a slot was freed while another is live and two are free, the free list not in
\* slot order, the live object overwritten by the client
C16_Witness ==
    /\ target = "pool" /\ ~aborted
    /\ lastOp.op = "Deallocate" /\ lastOp.arg # NULL
    /\ Cardinality(held) = 1
    /\ Len(PoolFreeList(pl)) = 2
    /\ PoolFreeList(pl)[1] > PoolFreeList(pl)[2]
    /\ \E h \in held : pl.mem[h] = pl.memory_block_

(***************************************************************************)
(* C17: Pool<T> exhaustion: with all capacity slots live, the next         *)
(* Allocate returns null and leaves used_count and the free list (the      *)
(* whole pool) unchanged; after one Deallocate of a live slot the          *)
(* following Allocate succeeds.                                            *)
(***************************************************************************)
C17_ExhaustedReturnsNull ==
    [][target = "pool" =>
         /\ (/\ lastOp'.op = "Allocate"
             /\ PoolAllocatorGetUsedCount(pl) = PoolAllocatorGetCapacity(pl)
             /\ PoolAccepts(pl, lastOp'.size, lastOp'.alignment))
            => (lastOp'.result = NULL /\ pl' = pl /\ held' = held /\ ~aborted')
         /\ (/\ lastOp'.op = "Deallocate" /\ lastOp'.arg # NULL
             /\ PoolAllocatorGetUsedCount(pl) = PoolAllocatorGetCapacity(pl))
            => \A size \in PoolRequestSizes, alignment \in PoolRequestAlignments :
                  PoolAccepts(pl', size, alignment) =>
                     /\ ~PoolAllocatorAllocate(pl', size, alignment).failed
                     /\ PoolAllocatorAllocate(pl', size, alignment).result = lastOp'.arg
         /\ (/\ lastOp.op = "Deallocate" /\ lastOp.arg # NULL
             /\ lastOp.before = PoolAllocatorGetCapacity(pl)
             /\ lastOp'.op = "Allocate"
             /\ PoolAccepts(pl, lastOp'.size, lastOp'.alignment))
            => (lastOp'.result # NULL /\ ~aborted')]_vars

\* a pool of several slots, all live, was asked for one more
C17_Witness ==
    /\ target = "pool" /\ ~aborted
    /\ lastOp.op = "Allocate" /\ lastOp.result = NULL
    /\ PoolAllocatorGetCapacity(pl) > 1
    /\ lastOp.before = PoolAllocatorGetCapacity(pl)
    /\ Cardinality(held) = PoolAllocatorGetCapacity(pl)

(***************************************************************************)
(* C18: Pool<T> recycling is last-in first-out: immediately after          *)
(* Deallocate(p) of a live slot p the next Allocate returns exactly p,     *)
(* whatever slots were allocated or freed before.                          *)
(***************************************************************************)
C18_FreedSlotIsNext ==
    (target = "pool" /\ lastOp.op = "Deallocate" /\ lastOp.arg # NULL /\ ~aborted) =>
        \A size \in PoolRequestSizes, alignment \in PoolRequestAlignments :
            PoolAccepts(pl, size, alignment) =>
                /\ ~PoolAllocatorAllocate(pl, size, alignment).failed
                /\ PoolAllocatorAllocate(pl, size, alignment).result = lastOp.arg

\* the slot freed last is neither the first slot nor the only free one
C18_Witness ==
    /\ target = "pool" /\ ~aborted
    /\ lastOp.op = "Deallocate" /\ lastOp.arg # NULL
    /\ lastOp.arg # pl.memory_block_
    /\ Len(PoolFreeList(pl)) >= 2
    /\ held # {}

(***************************************************************************)
(* C19: Pool and Slab: after N successful allocations and the N matching   *)
(* deallocations, in any interleaving and any deallocation order,          *)
(* used_count is 0 (of every slab, for a Slab) and every slot can be       *)
(* allocated again: capacity further allocations all succeed and return    *)
(* capacity distinct slot addresses.                                       *)
(***************************************************************************)
C19_PoolAllSlotsAgain ==
    (target = "pool" /\ held = {}) =>
        /\ PoolAllocatorGetUsedCount(pl) = 0
        /\ Range(PoolAllocatorDrain(pl, pl.capacity_))
              = PoolSlots(pl.memory_block_, pl.capacity_, PoolSlotSize(pl.T))

C19_SlabAllSlotsAgain ==
    (target = "slab" /\ held = {} /\ ~aborted) =>
        \A i \in DOMAIN slab.slabs_ :
            /\ GetSlabUsedCount(slab, i) = 0
            /\ \A wild \in WildLoads :
                  Range(SlabDrain(slab, i, slab.ObjectsPerSlab, wild))
                     = Range(SlabSlotsInOrder(slab, i))

C19_AllSlotsAgain == C19_PoolAllSlotsAgain /\ C19_SlabAllSlotsAgain

(***************************************************************************)
(* C20: Pool Reset, and Slab Reset for every slab, from any state sets     *)
(* used_count to 0 and re-threads the free list in slot order: the k-th    *)
(* Allocate after Reset (and after construction) returns slot k-1, the     *)
(* first returning slot 0 at the region base.                              *)
(***************************************************************************)
C20_PoolResetInSlotOrder ==
    target = "pool" =>
        /\ PoolAllocatorGetUsedCount(PoolAllocatorReset(pl)) = 0
        /\ PoolAllocatorDrain(PoolAllocatorReset(pl), pl.capacity_)
              = SlotsInOrder(pl.memory_block_, PoolSlotSize(pl.T), pl.capacity_)
        /\ lastOp.op \in {"none", "Reset"} =>
              /\ PoolAllocatorGetUsedCount(pl) = 0
              /\ PoolAllocatorDrain(pl, pl.capacity_)
                    = SlotsInOrder(pl.memory_block_, PoolSlotSize(pl.T), pl.capacity_)

C20_SlabResetInSlotOrder ==
    target = "slab" =>
        \A i \in DOMAIN slab.slabs_, wild \in WildLoads :
            /\ GetSlabUsedCount(SlabReset(slab), i) = 0
            /\ SlabDrain(SlabReset(slab), i, slab.ObjectsPerSlab, wild)
                  = SlabSlotsInOrder(slab, i)
            /\ lastOp.op \in {"none", "Reset"} =>
                  /\ GetSlabUsedCount(slab, i) = 0
                  /\ SlabDrain(slab, i, slab.ObjectsPerSlab, wild)
                        = SlabSlotsInOrder(slab, i)

C20_ResetInSlotOrder == C20_PoolResetInSlotOrder /\ C20_SlabResetInSlotOrder

(***************************************************************************)
(* C21: Slab routing: Allocate(size, a) is served only by the slab with    *)
(* the smallest size class >= size; if no class is large enough it returns *)
(* null; if that slab has no free slot it returns null without taking a    *)
(* slot from a larger slab; in both failure cases every slab's state is    *)
(* unchanged.                                                              *)
(***************************************************************************)
\* the slab with the smallest size class >= size, 0 when no class is large enough
SmallestFittingSlab(a, size) ==
    IF \E i \in DOMAIN a.sizes_ : a.sizes_[i] >= size
    THEN CHOOSE i \in DOMAIN a.sizes_ :
            /\ a.sizes_[i] >= size
            /\ \A j \in DOMAIN a.sizes_ : a.sizes_[j] >= size => a.sizes_[i] <= a.sizes_[j]
    ELSE 0

\* what C21 says of an Allocate(size, a) that took the allocator from a to b and
\* returned result, slab i being the one the request is routed to
RoutedTo(a, b, i, result, ended) ==
    IF i = 0 \/ GetSlabFreeCount(a, i) = 0
    THEN result = NullPtr /\ b = a /\ ~ended
    ELSE /\ \A j \in DOMAIN a.slabs_ : j # i => b.slabs_[j] = a.slabs_[j]
         /\ result # NullPtr => SlabContains(a.slabs_[i], a.ObjectsPerSlab, result)

C21_RoutedToSmallestFittingSlab ==
    [][(target = "slab" /\ lastOp'.op = "Allocate" /\ lastOp'.alignment <= MaxAlign) =>
          RoutedTo(slab, slab', SmallestFittingSlab(slab, lastOp'.size),
                   lastOp'.result, aborted')]_vars

(***************************************************************************)
(* C22: Slab Deallocate(p) of a live pointer pushes p onto the free list   *)
(* of the slab whose address span contains p, which is the slab that       *)
(* served it, restoring that slab's free count, and leaves the used count  *)
(* and free list (the whole state) of every other slab unchanged.          *)
(***************************************************************************)
\* what C22 says of a Deallocate(ptr) that took the allocator from a to b, slab i
\* being the one whose span contains ptr
PushedOnto(a, b, i, ptr) ==
    /\ b.slabs_[i].free_list_head = ptr
    /\ LoadWord(b.slabs_[i].cells, ptr.lo) = a.slabs_[i].free_list_head
    /\ GetSlabFreeCount(b, i) = GetSlabFreeCount(a, i) + 1
    /\ \A j \in DOMAIN a.slabs_ : j # i => b.slabs_[j] = a.slabs_[j]

C22_DeallocatePushesOntoOwningSlab ==
    [][(target = "slab" /\ lastOp'.op = "Deallocate"
          /\ \E h \in held : h.p = lastOp'.arg) =>
          /\ ~aborted'
          /\ \E i \in DOMAIN slab.slabs_ :
                /\ SlabContains(slab.slabs_[i], slab.ObjectsPerSlab, lastOp'.arg)
                /\ \A h \in held : h.p = lastOp'.arg => FindSlabIndex(slab, h.size) = i
                /\ PushedOnto(slab, slab', i, lastOp'.arg)]_vars

(***************************************************************************)
(* C23: Slab Deallocate of a non-null pointer lying in no slab's span is a *)
(* fatal programming error (assertion) and modifies no slab;               *)
(* Deallocate(null) is a no-op.                                            *)
(***************************************************************************)
InNoSpan(a, ptr) ==
    \A i \in DOMAIN a.slabs_ : ~SlabContains(a.slabs_[i], a.ObjectsPerSlab, ptr)

C23_ForeignPointerIsFatal ==
    [][(target = "slab" /\ lastOp'.op = "Deallocate") =>
          /\ (lastOp'.arg # NullPtr /\ InNoSpan(slab, lastOp'.arg)) =>
                (aborted' /\ slab' = slab)
          /\ lastOp'.arg = NullPtr =>
                (~aborted' /\ slab' = slab /\ held' = held)]_vars

\* a pointer just below the first slab was deallocated while slots were live
C23_Witness ==
    /\ target = "slab" /\ aborted
    /\ lastOp.op = "Deallocate"
    /\ lastOp.arg = ForeignPtr(slab)
    /\ held # {}
    /\ \E i \in DOMAIN slab.slabs_ : GetSlabUsedCount(slab, i) > 0

(***************************************************************************)
(* C24: every non-null address p that Slab Allocate(size, a) returns       *)
(* satisfies p mod a = 0, for every power-of-two alignment a the allocator *)
(* accepts (a <= alignof(max_align_t)) and for every configured size       *)
(* class, classes smaller than a included.                                 *)
(***************************************************************************)
\* a divides 2^32, so the residue of an address is that of its lower half
C24_ReturnedAddressAligned ==
    (/\ target = "slab"
     /\ lastOp.op = "Allocate"
     /\ lastOp.result # NullPtr
     /\ lastOp.alignment <= MaxAlign) =>
        lastOp.result.lo % lastOp.alignment = 0

(***************************************************************************)
(* C25: a successful Buddy Allocate(size, a) increases used by exactly     *)
(* need = max(MIN_BLOCK, next_pow2(size + header)), and the matching       *)
(* Deallocate decreases it by the same need; allocating MIN_BLOCK - header *)
(* bytes takes exactly one MIN_BLOCK block; allocating C - header bytes    *)
(* takes the whole arena, and then every Allocate returns null until a     *)
(* Deallocate.                                                             *)
(***************************************************************************)
NoFreeBlock(b) == \A l \in Levels : b.free_lists_[l] = <<>>

BuddyAllocated(b, op) ==
    /\ BuddyGetUsedMemory(b) = op.before + BuddyNeed(op.size)
    /\ b.headers[op.result - HeaderSize] = BuddyNeed(op.size)
    /\ op.size = MinBlockSize - HeaderSize => BuddyNeed(op.size) = MinBlockSize
    /\ op.size = b.capacity_ - HeaderSize =>
          /\ op.result = b.memory_block_ + HeaderSize
          /\ BuddyNeed(op.size) >= b.capacity_
          /\ NoFreeBlock(b)

C25_UsedMovesByNeed ==
    [][target = "buddy" =>
          /\ (lastOp'.op = "Allocate" /\ lastOp'.result # NULL) =>
                BuddyAllocated(bud', lastOp')
          /\ (lastOp'.op = "Allocate" /\ NoFreeBlock(bud)) =>
                (lastOp'.result = NULL /\ bud' = bud)
          /\ (lastOp'.op = "Deallocate" /\ lastOp'.arg # NULL) =>
                BuddyGetUsedMemory(bud') = BuddyGetUsedMemory(bud) - lastOp'.size]_vars

\* the whole arena was taken by one request of C - header bytes, and the next
\* request was refused
C25_Witness ==
    /\ target = "buddy" /\ bud.capacity_ = GetBlockSize(MaxBuddyRequestLevel)
    /\ held = {BuddyHeld(bud.memory_block_ + HeaderSize, bud.capacity_ - HeaderSize)}
    /\ BuddyGetUsedMemory(bud) = BuddyGetTotalMemory(bud)
    /\ lastOp.op = "Allocate" /\ lastOp.result = NULL /\ lastOp.alignment <= MaxAlign

(***************************************************************************)
(* C26: Buddy exhaustion: when no free block exists at the target level or *)
(* any higher level (a request whose need exceeds C included), Allocate    *)
(* returns null and leaves used and every level's free list unchanged; it  *)
(* never falls back to another heap.                                       *)
(***************************************************************************)
NoBlockFor(b, need) ==
    \/ need > b.capacity_
    \/ \A l \in Levels : l >= GetLevel(need) => b.free_lists_[l] = <<>>

C26_ExhaustedReturnsNull ==
    [][(/\ target = "buddy"
        /\ lastOp'.op = "Allocate"
        /\ lastOp'.alignment <= MaxAlign
        /\ NoBlockFor(bud, BuddyNeed(lastOp'.size))) =>
          (lastOp'.result = NULL /\ bud' = bud)]_vars

(***************************************************************************)
(* C27: GPU pool: for every block, after any sequence of Allocate and      *)
(* Deallocate (each handle deallocated at most once), the sum of the sizes *)
(* of its free regions plus block.used is <= block.size.                   *)
(***************************************************************************)
RECURSIVE FreeBytesFrom(_, _)
FreeBytesFrom(regions, i) ==
    IF i > Len(regions) THEN 0 ELSE regions[i].size + FreeBytesFrom(regions, i + 1)

FreeBytes(block) == FreeBytesFrom(block.freeRegions, 1)

\* used is a VkDeviceSize: a value below 0 in the model is the wrapped value
\* 2^64 + used of the program, which is above every block size
C27_FreePlusUsedWithinSize ==
    target = "gpu" =>
        \A b \in GpuBlocks :
            /\ b.used >= 0
            /\ FreeBytes(b) + b.used <= b.size

(***************************************************************************)
(* C28: GPU pool: after every Allocate and every Deallocate, each block's  *)
(* free-region list is strictly increasing in offset, its regions are      *)
(* non-empty, pairwise non-overlapping and pairwise non-adjacent, and      *)
(* every region lies inside [0, block.size).                               *)
(***************************************************************************)
\* in a list that increases in offset, region i ends before region i + 1
\* starts exactly when no two regions overlap or touch
FreeRegionsWellFormed(block) ==
    /\ \A i \in DOMAIN block.freeRegions :
          /\ block.freeRegions[i].size > 0
          /\ block.freeRegions[i].offset >= 0
          /\ block.freeRegions[i].offset + block.freeRegions[i].size <= block.size
    /\ \A i \in DOMAIN block.freeRegions : \A j \in DOMAIN block.freeRegions :
          i < j => block.freeRegions[i].offset + block.freeRegions[i].size
                      < block.freeRegions[j].offset

C28_FreeRegionsSortedDisjoint ==
    target = "gpu" => \A b \in GpuBlocks : FreeRegionsWellFormed(b)

(***************************************************************************)
(* C29: GPU sub-allocation and no eviction: a request that fits in a free  *)
(* region of an existing block of its class never creates a new block and  *)
(* its handle carries that block's memory object; the block count of a     *)
(* pool never decreases while the allocator lives, even after every handle *)
(* is deallocated.                                                         *)
(***************************************************************************)
BlockCount(g, type) == Len(g.pools[type].blocks)

FitsIn(block, size, alignment) == FindFreeRegion(block, size, alignment) # 0

SubAllocated(g, h, op) ==
    (\E i \in DOMAIN g.pools[op.type].blocks :
        FitsIn(g.pools[op.type].blocks[i], op.size, op.alignment)) =>
        /\ \A t \in MemoryTypes : BlockCount(h, t) = BlockCount(g, t)
        /\ h.driverMemory = g.driverMemory
        /\ \E i \in DOMAIN g.pools[op.type].blocks :
              /\ FitsIn(g.pools[op.type].blocks[i], op.size, op.alignment)
              /\ op.result.memory = g.pools[op.type].blocks[i].memory
              /\ op.result.blockIndex = i - 1

C29_SubAllocatesAndNeverEvicts ==
    [][(target \in GpuTargets) =>
          /\ (lastOp'.op = "Allocate" /\ lastOp'.size > 0 /\ budget' # budget) =>
                SubAllocated(gpu, gpu', lastOp')
          /\ \A t \in MemoryTypes : BlockCount(gpu', t) >= BlockCount(gpu, t)]_vars

\* a second request was served by the block of the first, and afterwards the
\* client holds no handle while the pool still has its block
C29_Witness ==
    /\ target \in GpuTargets
    /\ LiveHandles = {}
    /\ lastOp.op = "Deallocate" /\ IsValid(lastOp.before) /\ lastOp.before.offset > 0
    /\ budget = MaxGpuAllocations - 2
    /\ \E t \in MemoryTypes :
          /\ BlockCount(gpu, t) = 1
          /\ lastOp.before.memory = gpu.pools[t].blocks[1].memory
          /\ PoolGetAllocatedSize(gpu.pools[t]) = 0

(***************************************************************************)
(* C30: GPU max_blocks: the number of blocks of a pool never exceeds       *)
(* max_blocks; when no existing block can serve a request and the pool     *)
(* already holds max_blocks blocks, Allocate fails (an invalid handle),    *)
(* makes no backend allocation and leaves every block's used and free      *)
(* regions unchanged.                                                      *)
(***************************************************************************)
NoBlockServes(g, op) ==
    \A i \in DOMAIN g.pools[op.type].blocks :
        ~FitsIn(g.pools[op.type].blocks[i], op.size, op.alignment)

RefusedAtMaxBlocks(g, h, op) ==
    (NoBlockServes(g, op) /\ BlockCount(g, op.type) >= g.maxBlocks) =>
        /\ ~IsValid(op.result)
        /\ h.driverMemory = g.driverMemory
        /\ \A t \in MemoryTypes : h.pools[t].blocks = g.pools[t].blocks

C30_NeverMoreThanMaxBlocks ==
    [][(target \in GpuTargets) =>
          /\ \A t \in MemoryTypes : BlockCount(gpu', t) <= gpu'.maxBlocks
          /\ (lastOp'.op = "Allocate" /\ lastOp'.size > 0 /\ budget' # budget) =>
                (~aborted' /\ RefusedAtMaxBlocks(gpu, gpu', lastOp'))]_vars

\* the pool of the class holds max_blocks blocks, none of them serves the
\* request, and the request was refused
C30_Witness ==
    /\ target \in GpuTargets /\ ~aborted
    /\ lastOp.op = "Allocate" /\ lastOp.size > 0
    /\ ~IsValid(lastOp.result)
    /\ BlockCount(gpu, lastOp.type) = gpu.maxBlocks
    /\ NoBlockServes(gpu, lastOp)
    /\ PoolGetAllocatedSize(gpu.pools[lastOp.type]) > 0

(***************************************************************************)
(* C31: GPU block growth: when no existing block serves a request and the  *)
(* block count is below max_blocks, Allocate creates one new block of size *)
(* max(block_size, size + alignment) and the request is always satisfied   *)
(* from that new block; a request larger than block_size succeeds by       *)
(* creating an oversized block (given that the backend allocation          *)
(* succeeds).                                                              *)
(***************************************************************************)
\* the pool of op.type in h is the one in g with one block appended, and the
\* handle of op lies at the start of that block
ServedFromNewBlock(g, h, op) ==
    /\ BlockCount(h, op.type) = BlockCount(g, op.type) + 1
    /\ \A i \in DOMAIN g.pools[op.type].blocks :
          h.pools[op.type].blocks[i] = g.pools[op.type].blocks[i]
    /\ \E b \in {h.pools[op.type].blocks[BlockCount(h, op.type)]} :
          /\ b.size = Max(g.blockSize, op.size + op.alignment)
          /\ b.memory \notin g.driverMemory
          /\ h.driverMemory = g.driverMemory \cup {b.memory}
          /\ op.result.memory = b.memory
          /\ op.result.blockIndex = BlockCount(g, op.type)
          /\ op.result.offset = 0
          /\ op.result.size = op.size
          /\ b.used = op.size

\* a backend failure is the only other outcome: nothing was added
GrowsByOneBlock(g, h, op) ==
    (NoBlockServes(g, op) /\ BlockCount(g, op.type) < g.maxBlocks) =>
        IF IsValid(op.result)
        THEN ServedFromNewBlock(g, h, op)
        ELSE /\ h.driverMemory = g.driverMemory
             /\ BlockCount(h, op.type) = BlockCount(g, op.type)

ReachesBlock(g, allocation) ==
    /\ IsValid(allocation)
    /\ allocation.blockIndex < BlockCount(g, ResolveType(g, allocation))

C32_SecondDeallocateIsNoOp ==
    [][((target \in GpuTargets) /\ lastOp'.op = "Deallocate") =>
          /\ ReachesBlock(gpu, lastOp'.before) =>
                (lastOp'.result = NoAllocation
                    /\ held'[lastOp'.slot].allocation = NoAllocation)
          /\ lastOp'.before = NoAllocation =>
                (gpu' = gpu /\ held'[lastOp'.slot].allocation = NoAllocation
                    /\ ~aborted')]_vars

\* the one handle the client got was deallocated, and Deallocate was called
\* again on the same, zeroed, handle variable
C32_Witness ==
    /\ target \in GpuTargets
    /\ budget = MaxGpuAllocations - 1
    /\ \E t \in MemoryTypes : BlockCount(gpu, t) = 1 /\ gpu.pools[t].blocks[1].used = 0
    /\ lastOp.op = "Deallocate" /\ lastOp.slot = 1
    /\ lastOp.before = NoAllocation
    /\ held[1].allocation = NoAllocation

(***************************************************************************)
(* C33: GPU Allocate for a memory class for which the backend offers no    *)
(* memory type with the required property flags fails (an invalid handle), *)
(* without calling the backend's allocate_memory and without adding a      *)
(* block.                                                                  *)
(***************************************************************************)
NoSuitableMemoryType(g, type) ==
    FindMemoryType(g.memoryProperties, GetMemoryProperties(type)) = UINT32_MAX

\* a memory object the driver handed out shows that allocate_memory was called
C33_NoMemoryTypeFails ==
    [][((target \in GpuTargets) /\ lastOp'.op = "Allocate" /\ lastOp'.size > 0
          /\ budget' # budget /\ NoSuitableMemoryType(gpu, lastOp'.type)) =>
          /\ ~IsValid(lastOp'.result)
          /\ gpu'.driverMemory = gpu.driverMemory
          /\ BlockCount(gpu', lastOp'.type) = BlockCount(gpu, lastOp'.type)]_vars

(***************************************************************************)
(* C34: GPU block creation failure: if the backend allocate fails, or the  *)
(* backend map fails for a host-visible class, Allocate returns an invalid *)
(* handle, the just-allocated memory object (if any) has been freed, and   *)
(* the pool's block list is unchanged (no block added, no driver object    *)
(* leaked).                                                                *)
(***************************************************************************)
Request(type, size, alignment) == [type |-> type, size |-> size, alignment |-> alignment]

\* the answers of the driver with which AllocateBlock fails for the class
BackendFails(type, allocateOk, mapOk) ==
    ~allocateOk \/ (type \in {"HostVisible", "HostCached"} /\ ~mapOk)

\* r is what Allocate returns for the request in allocator g
FailsCleanly(g, type, r) ==
    /\ ~r.failed
    /\ ~IsValid(r.result)
    /\ r.self.driverMemory = g.driverMemory
    /\ r.self.pools[type].blocks = g.pools[type].blocks

\* in every state the client reaches, for every request that needs a new block
C34_BlockCreationFailureLeavesPool ==
    (target \in GpuTargets) =>
        \A type \in GpuClientTypes, size \in GpuSizes \ {0}, alignment \in GpuAlignments :
            (/\ NoBlockServes(gpu, Request(type, size, alignment))
             /\ BlockCount(gpu, type) < gpu.maxBlocks) =>
                \A allocateOk \in BOOLEAN, mapOk \in BOOLEAN :
                    BackendFails(type, allocateOk, mapOk) =>
                        FailsCleanly(gpu, type,
                                     GpuAllocate(gpu, size, alignment, type,
                                                 allocateOk, mapOk))

\* a request for host-visible memory to a pool without blocks came back with
\* an invalid handle, and the driver holds no memory object
C34_Witness ==
    /\ target \in GpuTargets /\ ~aborted
    /\ lastOp.op = "Allocate" /\ lastOp.size > 0
    /\ lastOp.type \in {"HostVisible", "HostCached"}
    /\ ~IsValid(lastOp.result)
    /\ NoBlockServes(gpu, lastOp)
    /\ BlockCount(gpu, lastOp.type) < gpu.maxBlocks
    /\ gpu.pools[lastOp.type].exists
    /\ gpu.driverMemory = {}

(***************************************************************************)
(* C35: GPU Deallocate with a bad handle (non-null memory object but       *)
(* block_index outside the resolved pool's block list) reports an error,   *)
(* changes no block, and leaves the handle invalidated (zeroed).           *)
(***************************************************************************)
BadHandle(g, allocation) ==
    /\ IsValid(allocation)
    /\ allocation.blockIndex >= BlockCount(g, ResolveType(g, allocation))

C35_BadHandleIsZeroed ==
    [][((target \in GpuTargets) /\ lastOp'.op = "Deallocate"
          /\ BadHandle(gpu, lastOp'.before)) =>
          /\ \A t \in MemoryTypes : gpu'.pools[t].blocks = gpu.pools[t].blocks
          /\ lastOp'.result = NoAllocation
          /\ held'[lastOp'.slot].allocation = NoAllocation]_vars

(***************************************************************************)
(* C36: GPU Deallocate(h) returns the region [h.offset, h.offset + h.size) *)
(* to the block of the pool (memory class) that h was allocated from, for  *)
(* handles of all three classes and for every backend memory-type table,   *)
(* one where two classes resolve to the same memory type index included;   *)
(* the blocks of the other pools are unchanged.                            *)
(***************************************************************************)
\* h is g after the region of the handle went back to block blockIndex of the
\* pool of class type
ReturnedToClass(g, h, type, allocation) ==
    /\ h.pools[type].blocks =
          [g.pools[type].blocks EXCEPT ![allocation.blockIndex + 1] =
              BlockDeallocate(@, allocation.offset, allocation.size)]
    /\ \A t \in MemoryTypes \ {type} : h.pools[t].blocks = g.pools[t].blocks

\* lastOp.type is the class the client asked for when it got the handle
C36_ReturnedToOwningPool ==
    [][((target \in GpuTargets) /\ lastOp'.op = "Deallocate"
          /\ IsValid(lastOp'.before)) =>
          ReturnedToClass(gpu, gpu', lastOp'.type, lastOp'.before)]_vars

(***************************************************************************)
(* C37: GPU first-fit: Allocate(size, alignment) scans the pool's blocks   *)
(* in creation order and each block's free regions in offset order, and    *)
(* takes the first region R with align_up(R.offset, alignment) + size <=   *)
(* R.offset + R.size; the handle's offset is align_up(R.offset,            *)
(* alignment), R becomes [offset + size, old end) and is dropped if empty, *)
(* and block.used grows by size + padding.                                 *)
(***************************************************************************)
RegionFits(R, size, alignment) == AlignUp(R.offset, alignment) + size <= R.offset + R.size

FittingRegions(block, size, alignment) ==
    {j \in DOMAIN block.freeRegions : RegionFits(block.freeRegions[j], size, alignment)}

\* the regions that fit and have no fitting region at a lower offset
FirstFitting(block, size, alignment) ==
    {j \in FittingRegions(block, size, alignment) :
        \A k \in FittingRegions(block, size, alignment) :
            block.freeRegions[j].offset <= block.freeRegions[k].offset}

\* the free list with region j cut down to what lies behind the allocation
CutRegion(regions, j, size, alignment) ==
    IF AlignUp(regions[j].offset, alignment) + size = regions[j].offset + regions[j].size
    THEN SubSeq(regions, 1, j - 1) \o SubSeq(regions, j + 1, Len(regions))
    ELSE [regions EXCEPT ![j] =
             FreeRegion(AlignUp(@.offset, alignment) + size,
                        @.offset + @.size - (AlignUp(@.offset, alignment) + size))]

TookRegion(before, after, j, op) ==
    /\ op.result.offset = AlignUp(before.freeRegions[j].offset, op.alignment)
    /\ op.result.memory = before.memory
    /\ op.result.size = op.size
    /\ after.freeRegions = CutRegion(before.freeRegions, j, op.size, op.alignment)
    /\ after.used = before.used + op.size
                       + (AlignUp(before.freeRegions[j].offset, op.alignment)
                             - before.freeRegions[j].offset)

\* i is the first block of the pool with a region that fits
FirstFit(g, h, op, i) ==
    /\ op.result.blockIndex = i - 1
    /\ \A k \in DOMAIN g.pools[op.type].blocks :
          k # i => h.pools[op.type].blocks[k] = g.pools[op.type].blocks[k]
    /\ \E j \in FirstFitting(g.pools[op.type].blocks[i], op.size, op.alignment) :
          TookRegion(g.pools[op.type].blocks[i], h.pools[op.type].blocks[i], j, op)

RECURSIVE SumOfBlocks(_, _)
SumOfBlocks(blocks, field) ==
    IF blocks = <<>> THEN 0
    ELSE blocks[1][field] + SumOfBlocks(Tail(blocks), field)

StatsMatch(g, type) ==
    /\ GpuGetStats(g, type).totalBytes = SumOfBlocks(g.pools[type].blocks, "size")
    /\ GpuGetStats(g, type).allocatedBytes = SumOfBlocks(g.pools[type].blocks, "used")
    /\ GpuGetStats(g, type).blockCount = Len(g.pools[type].blocks)

C38_StatsMatchBlocks ==
    (target \in GpuTargets /\ ~aborted) => \A type \in GpuClientTypes : StatsMatch(gpu, type)

(***************************************************************************)
(* C39: Buddy construction: for every capacity, the constructed allocator  *)
(* has exactly one free block, covering [0, C) with C the capacity rounded *)
(* up to a power of two; the block is on a level below MaxLevels whose     *)
(* block size, MinBlockSize * 2^level, equals C; every other level is      *)
(* empty and used == 0.                                                    *)
(***************************************************************************)
WholeArenaOnLevel(b, level) ==
    /\ b.free_lists_[level] = <<b.memory_block_>>
    /\ GetBlockSize(level) = b.capacity_
    /\ \A other \in Levels \ {level} : b.free_lists_[other] = <<>>

ConstructedWhole(b) ==
    /\ b.used_memory_ = 0
    /\ \E level \in Levels : WholeArenaOnLevel(b, level)

C39_ConstructedWithOneWholeBlock ==
    (target = "buddy" /\ lastOp = NoOp) => ConstructedWhole(bud)

(***************************************************************************)
(* C40: Buddy structural invariant: after every Allocate and Deallocate    *)
(* the free blocks of all levels and the live blocks exactly partition     *)
(* [0, C): a free block of level k has size MinBlockSize * 2^k and an      *)
(* offset that is a multiple of that size, the sizes of the free blocks    *)
(* plus used add up to C, and no level holds both a free block and its     *)
(* free buddy (coalescing is always complete).                             *)
(***************************************************************************)
\* the blocks of the arena as [offset, size, free]
FreeBlocksOf(b) ==
    UNION {{[offset |-> b.free_lists_[k][i] - b.memory_block_, size |-> GetBlockSize(k),
             free |-> TRUE] : i \in DOMAIN b.free_lists_[k]} : k \in Levels}

LiveBlocksOf(b) ==
    {[offset |-> a - b.memory_block_, size |-> b.headers[a], free |-> FALSE] :
        a \in DOMAIN b.headers}

RECURSIVE SumOfSizes(_)
SumOfSizes(blocks) ==
    IF blocks = {} THEN 0
    ELSE LET x == CHOOSE y \in blocks : TRUE
         IN  x.size + SumOfSizes(blocks \ {x})

Partitions(blocks, C) ==
    /\ \A x \in blocks : x.offset >= 0 /\ x.offset + x.size <= C
    /\ \A x, y \in blocks :
          x # y => (x.offset + x.size <= y.offset \/ y.offset + y.size <= x.offset)
    /\ SumOfSizes(blocks) = C

NoFreeBuddies(b) ==
    \A k \in Levels : \A i, j \in DOMAIN b.free_lists_[k] :
        b.free_lists_[k][j] - b.memory_block_
            # GetBuddyOffset(b.free_lists_[k][i] - b.memory_block_, GetBlockSize(k))

BuddyStructure(b) ==
    /\ \A k \in Levels : \A i, j \in DOMAIN b.free_lists_[k] :
          i # j => b.free_lists_[k][i] # b.free_lists_[k][j]
    /\ \A x \in FreeBlocksOf(b) : x.offset % x.size = 0
    /\ Partitions(FreeBlocksOf(b) \cup LiveBlocksOf(b), b.capacity_)
    /\ SumOfSizes(FreeBlocksOf(b)) + b.used_memory_ = b.capacity_
    /\ NoFreeBuddies(b)

C40_FreeAndLivePartitionArena ==
    (target = "buddy" /\ ~aborted /\ lastOp.op \in {"Allocate", "Deallocate"}) =>
        BuddyStructure(bud)

====
